---- MODULE Spec2Model ----
(***************************************************************************)
(* Model of the sales-ranking merge pipeline:                              *)
(*   01_create_data.py          the Aggregator (process_data)              *)
(*   02_merge_past_data.py      the protective merge (merge_dataframes)    *)
(*   02_merge_past_data_2Q.py   the authoritative merge (merge_data)       *)
(*                                                                         *)
(* Encoding.                                                               *)
(*  - A column name is a record [year, name, tag]: "2025" + "sales" +      *)
(*    "_past" is [year |-> 2025, name |-> "sales", tag |-> "_past"]; an    *)
(*    identity column has year 0.  The Japanese column names of the source *)
(*    are transliterated:                                                  *)
(*      corp_code  houjin code      corp_name  houjin mei                  *)
(*      cust_code  tokuisaki code   cust_name  tokuisaki mei               *)
(*      office_name eigyousho mei   staff_name tantousha mei               *)
(*      layer1     dai-1 kaisou     item_code  shouhin code                *)
(*      item_name  shouhin mei                                             *)
(*      qty  uriage-suu    m2  square metres    sales  uriage              *)
(*      profit  arari                                                      *)
(*  - A polars DataFrame is [cols |-> <ordered column names>,              *)
(*    rows |-> <sequence of functions from the columns to values>].        *)
(*  - Every cell is an integer; Null stands for the polars null.  Identity *)
(*    values (codes, names) are small positive integers.                   *)
(*  - Float64 ledger amounts are held in halves: the raw value v stands    *)
(*    for v/2, so that the Int64 cast of a group sum truncates.            *)
(*                                                                         *)
(* Specifications.                                                         *)
(*  - Spec: ledger -> current tables -> merge with the historical tables.  *)
(*  - SpecFix: the two reconcilers applied to a joined table.              *)
(*  - SpecFill: fill_missing_index_columns applied to merged tables.       *)
(*  - SpecMain: main() of 02_merge_past_data.py and run() of               *)
(*    02_merge_past_data_2Q.py from the loaded files to the return.        *)
(*  - SpecMainLive: SpecMain where a running script leaves its position.   *)
(*  - SpecYears: the Fiscal Year Set computed from the system clock.        *)
(*  - SpecCompare: compare_totals applied to snapshots around its          *)
(*    thresholds.                                                          *)
(*  - SpecTransfer: the three transfer scripts, from the template and the  *)
(*    saved tables to the end of the process.                              *)
(***************************************************************************)
EXTENDS Integers, Sequences, FiniteSets, TLC

VARIABLES
    raw,      \* the ledger rows read from the CSV (01_create_data.py main)
    df_a,     \* current-year tables per dimension (the aggregate parquet files)
    df_b,     \* historical tables per dimension (the past parquet files)
    df_pre,   \* the tables the last operation received, per dimension
    df,       \* the tables the last operation returned, per dimension
    pc,       \* position of the run
    variant,  \* which script ran: "protective" or "authoritative" for a merge
    master,   \* the company master (houjin master CSV: code, name)
    totals,   \* the totals snapshots the verifier has taken
    checks,   \* the verdicts of the verifier so far, in order
    saved,    \* the tables written by save_data, once it has run
    signal,   \* what the script has returned to its caller
    clock,    \* the system clock read by the run: calendar year and month
    fiscal,   \* the Fiscal Year Set the run has computed from the clock
    app,      \* the Excel application of a transfer (xw.App)
    wb,       \* the workbook of a transfer
    book,     \* the cells of the workbook's sheets, per dimension
    moved     \* the dimensions whose table the transfer has written

\* the state of the part of a script that follows its merge
tail == <<master, totals, checks, saved, signal>>

\* the state of the clock and of the spreadsheet transfer
ext == <<clock, fiscal, app, wb, book, moved>>

vars == <<raw, df_a, df_b, df_pre, df, pc, variant, master, totals, checks, saved, signal,
          clock, fiscal, app, wb, book, moved>>

-----------------------------------------------------------------------------
(* Bounds of the model *)

\* number of ledger rows of the current period
MaxTx == 2
\* number of ledger rows behind the historical tables
MaxPast == 2
\* number of prior fiscal years kept in the Fiscal Year Set (the source keeps
\* every year from config.START_YEAR = 2015)
NumPastYears == 2

-----------------------------------------------------------------------------
(* Values and column names *)

Null == -1

Range(s) == {s[i] : i \in 1..Len(s)}

IdCol(n) == [year |-> 0, name |-> n, tag |-> ""]

MetricCol(y, s) == [year |-> y, name |-> s, tag |-> ""]

\* f"{col}_past", the "_right" suffix of a join, and str.replace('_past', '')
Tagged(c, t) == [c EXCEPT !.tag = t]

DATA_TYPES == <<"corp", "cust", "prod">>

Dims == Range(DATA_TYPES)

PRODUCT_JOIN_KEYS ==
    <<IdCol("office_name"), IdCol("cust_code"), IdCol("cust_name"),
      IdCol("layer1"), IdCol("item_code"), IdCol("item_name")>>

CORP_JOIN_KEYS == <<IdCol("corp_code")>>

CUST_JOIN_KEYS == <<IdCol("cust_code"), IdCol("cust_name")>>

JoinKeys(d) ==
    CASE d = "corp" -> CORP_JOIN_KEYS
      [] d = "cust" -> CUST_JOIN_KEYS
      [] d = "prod" -> PRODUCT_JOIN_KEYS

-----------------------------------------------------------------------------
(* Fiscal years *)

\* get_fiscal_years: base_year 2025, for a clock in April or later
CurrentYear == 2025

START_YEAR == CurrentYear - NumPastYears

\* generate_years_list: the years from start_year to end_year, descending
generate_years_list(start_year, end_year) ==
    [i \in 1..(end_year - start_year + 1) |-> end_year - i + 1]

Years == generate_years_list(START_YEAR, CurrentYear)

-----------------------------------------------------------------------------
(* DataFrame primitives (polars) *)

\* pl.DataFrame()
EmptyFrame == [cols |-> <<>>, rows |-> <<>>]

ColSet(t) == Range(t.cols)

\* df.is_empty(): no rows
is_empty(t) == Len(t.rows) = 0

\* Series.is_null()
is_null(v) == v = Null

RECURSIVE SumSeq(_)
SumSeq(s) == IF Len(s) = 0 THEN 0 ELSE Head(s) + SumSeq(Tail(s))

\* df[col].sum(): nulls are skipped, the sum of no value is 0
ColSum(t, c) ==
    SumSeq([i \in 1..Len(t.rows) |->
                IF is_null(t.rows[i][c]) THEN 0 ELSE t.rows[i][c]])

\* pl.col(c): the values of column c, row by row
ColValues(t, c) == [i \in 1..Len(t.rows) |-> t.rows[i][c]]

\* pl.lit(v): the value v in every row
Lit(t, v) == [i \in 1..Len(t.rows) |-> v]

\* pl.when(pl.col(c).is_null()).then(pl.col(other)).otherwise(pl.col(c))
WhenNullThen(t, c, other) ==
    [i \in 1..Len(t.rows) |->
        IF is_null(t.rows[i][c]) THEN t.rows[i][other] ELSE t.rows[i][c]]

\* df.with_columns(expr.alias(c)): replaces column c, or appends it; vals
\* are the values of the expression, row by row
WithColumn(t, c, vals) ==
    LET newcols == IF c \in ColSet(t) THEN t.cols ELSE Append(t.cols, c)
        newset  == Range(newcols)
    IN  [cols |-> newcols,
         rows |-> [i \in 1..Len(t.rows) |->
                     [k \in newset |->
                         IF k = c THEN vals[i] ELSE t.rows[i][k]]]]

\* df.select(cols), for columns the frame has
SelectCols(t, cs) ==
    LET newset == Range(cs)
    IN  [cols |-> cs,
         rows |-> [i \in 1..Len(t.rows) |-> [k \in newset |-> t.rows[i][k]]]]

\* df.drop(c)
DropCol(t, c) ==
    SelectCols(t, SelectSeq(t.cols, LAMBDA k : k # c))

\* df.rename(mapping): mapping[c] is the new name of column c (one-to-one)
RenameCols(t, mapping) ==
    LET newcols == [i \in 1..Len(t.cols) |-> mapping[t.cols[i]]]
        newset  == Range(newcols)
        old     == [k \in newset |-> CHOOSE c \in ColSet(t) : mapping[c] = k]
    IN  [cols |-> newcols,
         rows |-> [i \in 1..Len(t.rows) |->
                     [k \in newset |-> t.rows[i][old[k]]]]]

\* the sequence s without the entries that repeat an earlier one
RECURSIVE Distinct(_)
Distinct(s) ==
    IF Len(s) = 0 THEN <<>>
    ELSE LET front == Distinct(SubSeq(s, 1, Len(s) - 1))
             last  == s[Len(s)]
         IN  IF last \in Range(front) THEN front ELSE Append(front, last)

RECURSIVE Concat(_)
Concat(ss) == IF Len(ss) = 0 THEN <<>> ELSE Head(ss) \o Concat(Tail(ss))

-----------------------------------------------------------------------------
(* Aggregator: 01_create_data.py *)

SUFFIXES == <<"qty", "m2", "sales", "profit">>

PAST_SUFFIXES == <<"m2", "sales", "profit">>

\* the identity columns of the ledger
LEDGER_ID_COLUMNS ==
    <<IdCol("corp_code"), IdCol("cust_code"), IdCol("cust_name"),
      IdCol("office_name"), IdCol("layer1"), IdCol("item_code"),
      IdCol("item_name")>>

\* COLUMNS_CONFIG with rename_columns applied: the columns selected for each
\* dimension, the metric columns carrying the year
ColumnsConfig(d, year) ==
    JoinKeys(d) \o [i \in 1..Len(SUFFIXES) |-> MetricCol(year, SUFFIXES[i])]

\* Expr.cast(pl.Int64) of a Float64 held in halves: truncation toward zero
cast_Int64(h) == IF h >= 0 THEN h \div 2 ELSE -((-h) \div 2)

\* df.group_by(group_cols).agg([pl.col(c).sum() ...]); the sums of the columns
\* in cast_cols are cast to Int64.  One row per distinct key (a null is a key
\* value like any other), in order of first appearance.
GroupBySum(t, group_cols, agg_cols, cast_cols) ==
    LET KeyOf(r)  == [k \in 1..Len(group_cols) |-> r[group_cols[k]]]
        keys      == Distinct([i \in 1..Len(t.rows) |-> KeyOf(t.rows[i])])
        Group(key) == SelectSeq(t.rows, LAMBDA r : KeyOf(r) = key)
        GSum(key, c) ==
            SumSeq([i \in 1..Len(Group(key)) |->
                       IF is_null(Group(key)[i][c]) THEN 0 ELSE Group(key)[i][c]])
        gset      == Range(group_cols)
        keyIndex  == [c \in gset |-> CHOOSE k \in 1..Len(group_cols) : group_cols[k] = c]
        outcols   == group_cols \o agg_cols
        outset    == Range(outcols)
    IN  [cols |-> outcols,
         rows |-> [g \in 1..Len(keys) |->
                     [c \in outset |->
                         IF c \in gset
                         THEN keys[g][keyIndex[c]]
                         ELSE IF c \in cast_cols
                              THEN cast_Int64(GSum(keys[g], c))
                              ELSE GSum(keys[g], c)]]]

\* the casts of process_data: revenue and gross margin are cast to Int64
ProcessCast(year) == {MetricCol(year, "sales"), MetricCol(year, "profit")}

process_data(t, group_cols, year) ==
    GroupBySum(t, group_cols,
               [i \in 1..Len(SUFFIXES) |-> MetricCol(year, SUFFIXES[i])],
               ProcessCast(year))

\* main of 01_create_data.py: the ledger, with the year put on its metric
\* columns, projected and aggregated per dimension
LedgerFrame(rows, year) ==
    [cols |-> LEDGER_ID_COLUMNS \o
              [i \in 1..Len(SUFFIXES) |-> MetricCol(year, SUFFIXES[i])],
     rows |-> rows]

create_data(rows, year) ==
    [d \in Dims |->
        process_data(SelectCols(LedgerFrame(rows, year), ColumnsConfig(d, year)),
                     JoinKeys(d), year)]

-----------------------------------------------------------------------------
(* Inputs: the ledger of the current period and the historical files *)

\* (corp_code, cust_code, office_name, revenue) of the ledger rows considered;
\* the revenue is in halves: 200 is 100.0 and 1 is 0.5
TxIds ==
    <<<<1, 1, 1, 200>>, <<1, 2, 1, 1>>, <<1, 1, 2, 200>>, <<2, 2, 1, 1>>>>

\* the display name that goes with a code
NameOf(code) == IF code = Null THEN Null ELSE code + 10

LedgerRow(ids, year, qty, m2, sales, profit) ==
    [c \in Range(LEDGER_ID_COLUMNS) \cup
           {MetricCol(year, SUFFIXES[i]) : i \in 1..Len(SUFFIXES)} |->
        CASE c = IdCol("corp_code")   -> ids[1]
          [] c = IdCol("cust_code")   -> ids[2]
          [] c = IdCol("cust_name")   -> NameOf(ids[2])
          [] c = IdCol("office_name") -> ids[3]
          [] c = IdCol("layer1")      -> 1
          [] c = IdCol("item_code")   -> 1
          [] c = IdCol("item_name")   -> 1
          [] c.name = "qty"           -> qty
          [] c.name = "m2"            -> m2
          [] c.name = "sales"         -> sales
          [] c.name = "profit"        -> profit]

TxList ==
    [n \in 1..Len(TxIds) |->
        LedgerRow(TxIds[n], CurrentYear, 2, 3, TxIds[n][4], TxIds[n][4])]

\* the non-decreasing index sequences of length at most n over 1..k: the
\* ledgers are taken up to the order of their rows
SortedSeqs(k, n) ==
    {s \in UNION {[1..m -> 1..k] : m \in 0..n} :
        \A i \in 1..(Len(s) - 1) : s[i] <= s[i + 1]}

RawLedgers ==
    {[i \in 1..Len(s) |-> TxList[s[i]]] : s \in SortedSeqs(Len(TxList), MaxTx)}

\* (corp_code, cust_code, office_name) of the rows behind the historical files
PastIds == <<<<1, 1, 1>>, <<2, 2, 1>>>>

\* the value a historical row carries for a prior year: revenue 50 for last
\* year, 30 for the year before
PastValue(y, s) ==
    CASE s = "sales"  -> IF y = CurrentYear - 1 THEN 50
                         ELSE IF y = CurrentYear - 2 THEN 30 ELSE 10
      [] s = "profit" -> 5
      [] s = "m2"     -> 4
      [] s = "qty"    -> 6

\* the value a stale copy of the current year carries in a historical file
StaleValue(s) == IF s = "sales" THEN 70 ELSE 7

PriorYears == SubSeq(Years, 2, Len(Years))

\* the metric columns of a historical file: last year's four, and three for
\* each year before
PastMetricCols ==
    Concat([i \in 1..Len(PriorYears) |->
              IF i = 1
              THEN [j \in 1..Len(SUFFIXES) |-> MetricCol(PriorYears[i], SUFFIXES[j])]
              ELSE [j \in 1..Len(PAST_SUFFIXES) |->
                       MetricCol(PriorYears[i], PAST_SUFFIXES[j])]])

PastRow(ids) ==
    [c \in Range(LEDGER_ID_COLUMNS) \cup Range(PastMetricCols) |->
        IF c \in Range(PastMetricCols)
        THEN PastValue(c.year, c.name)
        ELSE LedgerRow(ids, CurrentYear, 0, 0, 0, 0)[c]]

PastList == [n \in 1..Len(PastIds) |-> PastRow(PastIds[n])]

PastLedgers ==
    {[i \in 1..Len(s) |-> PastList[s[i]]] : s \in SortedSeqs(Len(PastList), MaxPast)}

\* a historical file as earlier runs leave it: one row per key with the totals
\* of the prior years; the company file also carries the display name
HistBase(d, past) ==
    LET t == GroupBySum([cols |-> LEDGER_ID_COLUMNS \o PastMetricCols, rows |-> past],
                        JoinKeys(d), PastMetricCols, {})
    IN  IF d = "corp"
        THEN SelectCols(WithColumn(t, IdCol("corp_name"),
                                   [i \in 1..Len(t.rows) |->
                                       NameOf(t.rows[i][IdCol("corp_code")])]),
                        <<IdCol("corp_code"), IdCol("corp_name")>> \o PastMetricCols)
        ELSE t

\* with_columns of a literal for each of the given columns
WithLiterals(t, cs, v) ==
    LET tset    == ColSet(t)
        newcols == t.cols \o SelectSeq(cs, LAMBDA c : c \notin tset)
        newset  == Range(newcols)
    IN  [cols |-> newcols,
         rows |-> [i \in 1..Len(t.rows) |->
                     [k \in newset |->
                         IF k \in DOMAIN v THEN v[k] ELSE t.rows[i][k]]]]

CurrentMetricCols == [i \in 1..Len(SUFFIXES) |-> MetricCol(CurrentYear, SUFFIXES[i])]

\* the shapes a historical file is considered in
HistShapes ==
    {"asis", "missing_corp", "missing_cust", "missing_prod",
     "norows_corp", "norows_cust", "norows_prod",
     "nokey_cust", "nokey_prod", "stale", "noyear", "dupkey", "remerged"}

HistFile(shape, d, past, ledger) ==
    LET base == HistBase(d, past)
    IN  CASE shape = "asis" -> base
          \* the file does not exist: load_past_data yields pl.DataFrame()
          [] shape \in {"missing_corp", "missing_cust", "missing_prod"} ->
                IF shape = "missing_" \o d THEN EmptyFrame ELSE base
          \* the file has its columns and no row
          [] shape \in {"norows_corp", "norows_cust", "norows_prod"} ->
                IF shape = "norows_" \o d THEN [base EXCEPT !.rows = <<>>] ELSE base
          \* an older vintage without one of the join-key columns
          [] shape = "nokey_cust" ->
                IF d = "cust" THEN DropCol(base, IdCol("cust_name")) ELSE base
          [] shape = "nokey_prod" ->
                IF d = "prod" THEN DropCol(base, IdCol("office_name")) ELSE base
          \* the file carries columns of the current year from a stale merge
          [] shape = "stale" ->
                WithLiterals(base, CurrentMetricCols,
                             [c \in Range(CurrentMetricCols) |-> StaleValue(c.name)])
          \* the file lacks the oldest year
          [] shape = "noyear" ->
                SelectCols(base, SelectSeq(base.cols, LAMBDA c : c.year # START_YEAR))
          \* the file holds its first row twice
          [] shape = "dupkey" ->
                IF Len(base.rows) = 0 THEN base
                ELSE [base EXCEPT !.rows = <<base.rows[1]>> \o base.rows]
          \* the file is the merged output of this very period: the keys and
          \* current-year values of the current tables, plus the prior years
          [] shape = "remerged" ->
                LET cur == create_data(ledger, CurrentYear)[d]
                    named == IF d = "corp"
                             THEN WithColumn(cur, IdCol("corp_name"),
                                      [i \in 1..Len(cur.rows) |->
                                          NameOf(cur.rows[i][IdCol("corp_code")])])
                             ELSE cur
                IN  WithLiterals(named, PastMetricCols,
                                 [c \in Range(PastMetricCols) |->
                                     PastValue(c.year, c.name)])

HistFiles(ledger) ==
    {[d \in Dims |-> HistFile(shape, d, past, ledger)] :
        shape \in HistShapes, past \in PastLedgers}

-----------------------------------------------------------------------------
(* The full outer join (polars DataFrame.join, how="full") *)

\* A column carries at most one suffix in the model: col.endswith('_past')
EndsWithPast(c) == c.tag = "_past"

\* the name a column of the right frame gets in the joined frame: keys are not
\* coalesced, and a name the left frame already has gets the suffix "_right"
JoinRightName(l, c) == IF c \in ColSet(l) THEN Tagged(c, "_right") ELSE c

\* the join raises when a key column is missing on its side, or when a
\* suffixed name is already taken
JoinRaises(l, r, left_on, right_on) ==
    \/ \E k \in Range(left_on) : k \notin ColSet(l)
    \/ \E k \in Range(right_on) : k \notin ColSet(r)
    \/ \E c \in ColSet(r) :
          c \in ColSet(l) /\ Tagged(c, "_right") \in ColSet(l) \cup ColSet(r)

\* a join that compares the first key only
JoinMatchFirstKey(a, b, left_on, right_on) ==
    ~is_null(a[left_on[1]]) /\ a[left_on[1]] = b[right_on[1]]

\* rows match when every key is equal and non-null
JoinMatch(a, b, left_on, right_on) ==
    \A k \in 1..Len(left_on) :
        ~is_null(a[left_on[k]]) /\ a[left_on[k]] = b[right_on[k]]

\* a join that keeps the rows of the left frame only
JoinLeftOnly(l, r, left_on, right_on) ==
    LET lset  == ColSet(l)
        rset  == ColSet(r)
        rname == [k \in rset |-> JoinRightName(l, k)]
        rcols == [i \in 1..Len(r.cols) |-> rname[r.cols[i]]]
        cols  == l.cols \o rcols
        orig  == [c \in Range(rcols) |-> CHOOSE k \in rset : rname[k] = c]
        NullR == [c \in rset |-> Null]
        Row(a, b) == [c \in Range(cols) |-> IF c \in lset THEN a[c] ELSE b[orig[c]]]
        Matches(a) == SelectSeq(r.rows, LAMBDA b : JoinMatch(a, b, left_on, right_on))
    IN  [cols |-> cols,
         rows |-> Concat([i \in 1..Len(l.rows) |->
                      IF Len(Matches(l.rows[i])) = 0
                      THEN <<Row(l.rows[i], NullR)>>
                      ELSE [j \in 1..Len(Matches(l.rows[i])) |->
                               Row(l.rows[i], Matches(l.rows[i])[j])]])]

JoinFull(l, r, left_on, right_on) ==
    LET lset  == ColSet(l)
        rset  == ColSet(r)
        rname == [k \in rset |-> JoinRightName(l, k)]
        rcols == [i \in 1..Len(r.cols) |-> rname[r.cols[i]]]
        cols  == l.cols \o rcols
        cset  == Range(cols)
        orig  == [c \in Range(rcols) |-> CHOOSE k \in rset : rname[k] = c]
        NullL == [c \in lset |-> Null]
        NullR == [c \in rset |-> Null]
        Row(a, b) == [c \in cset |-> IF c \in lset THEN a[c] ELSE b[orig[c]]]
        Matches(a) == SelectSeq(r.rows, LAMBDA b : JoinMatch(a, b, left_on, right_on))
        LeftPart ==
            Concat([i \in 1..Len(l.rows) |->
                      IF Len(Matches(l.rows[i])) = 0
                      THEN <<Row(l.rows[i], NullR)>>
                      ELSE [j \in 1..Len(Matches(l.rows[i])) |->
                               Row(l.rows[i], Matches(l.rows[i])[j])]])
        Unmatched ==
            SelectSeq(r.rows,
                      LAMBDA b : \A i \in 1..Len(l.rows) :
                                    ~JoinMatch(l.rows[i], b, left_on, right_on))
        RightPart == [j \in 1..Len(Unmatched) |-> Row(NullL, Unmatched[j])]
    IN  [cols |-> cols, rows |-> LeftPart \o RightPart]

-----------------------------------------------------------------------------
(* Protective merge: 02_merge_past_data.py *)

PROTECTED_KEYS ==
    {IdCol("corp_code"), IdCol("corp_name"), IdCol("cust_code"),
     IdCol("cust_name"), IdCol("office_name"), IdCol("staff_name"),
     IdCol("layer1"), IdCol("item_code"), IdCol("item_name")}

\* add_past_suffix: an empty frame is returned as it is; otherwise every
\* column outside the protected keys and key_columns is renamed col + "_past"
add_past_suffix(t, key_columns) ==
    IF is_empty(t) THEN t
    ELSE RenameCols(t, [c \in ColSet(t) |->
                           IF c \in PROTECTED_KEYS \cup Range(key_columns)
                           THEN c ELSE Tagged(c, "_past")])

\* the columns ending in "_past", in frame order
PastColumns(t) == SelectSeq(t.cols, EndsWithPast)

\* any(year in base_col for year in years_list)
HasYear(c, years_list) == c.year \in Range(years_list)

\* first loop of fix_full_join_nulls: an identity column is created from its
\* shadow, or has only its nulls filled from it
RECURSIVE FixIdColumns(_, _, _)
FixIdColumns(t, past_columns, years_list) ==
    IF Len(past_columns) = 0 THEN t
    ELSE LET past_col == Head(past_columns)
             base_col == Tagged(past_col, "")
             t2 == IF ~HasYear(base_col, years_list)
                   THEN IF base_col \notin ColSet(t)
                        THEN WithColumn(t, base_col, ColValues(t, past_col))
                        ELSE WithColumn(t, base_col, WhenNullThen(t, base_col, past_col))
                   ELSE t
         IN  FixIdColumns(t2, Tail(past_columns), years_list)

\* the (year, suffix) pairs the second loop visits, in its order
ExpectedCols(years_list, current_year) ==
    Concat([i \in 1..Len(years_list) |->
              IF years_list[i] = current_year
              THEN [j \in 1..Len(SUFFIXES) |-> MetricCol(years_list[i], SUFFIXES[j])]
              ELSE [j \in 1..Len(PAST_SUFFIXES) |->
                       MetricCol(years_list[i], PAST_SUFFIXES[j])]])

NullColumn(t, c) == WithColumn(t, c, Lit(t, Null))

\* a reconciliation that treats the current year like a prior year: the
\* column is created from its shadow, or has its nulls filled from it
FixYearColumnFillsCurrent(t, col_name, current_year) ==
    LET past_col_name == Tagged(col_name, "_past")
    IN  IF past_col_name \in ColSet(t)
        THEN IF col_name \notin ColSet(t)
             THEN WithColumn(t, col_name, ColValues(t, past_col_name))
             ELSE WithColumn(t, col_name, WhenNullThen(t, col_name, past_col_name))
        ELSE IF col_name \notin ColSet(t) THEN NullColumn(t, col_name) ELSE t

\* a reconciliation that creates no column when it is on neither side
FixYearColumnNoNullColumn(t, col_name, current_year) ==
    LET past_col_name == Tagged(col_name, "_past")
    IN  IF col_name.year = current_year
        THEN IF col_name \notin ColSet(t) THEN NullColumn(t, col_name) ELSE t
        ELSE IF past_col_name \in ColSet(t)
             THEN IF col_name \notin ColSet(t)
                  THEN WithColumn(t, col_name, ColValues(t, past_col_name))
                  ELSE WithColumn(t, col_name, WhenNullThen(t, col_name, past_col_name))
             ELSE t

\* a reconciliation that never reads the shadow of a prior year
FixYearColumnIgnoresPast(t, col_name, current_year) ==
    IF col_name \notin ColSet(t) THEN NullColumn(t, col_name) ELSE t

\* a reconciliation that overwrites a prior year with its shadow
FixYearColumnOverwrites(t, col_name, current_year) ==
    LET past_col_name == Tagged(col_name, "_past")
    IN  IF col_name.year = current_year
        THEN IF col_name \notin ColSet(t) THEN NullColumn(t, col_name) ELSE t
        ELSE IF past_col_name \in ColSet(t)
             THEN WithColumn(t, col_name, ColValues(t, past_col_name))
             ELSE IF col_name \notin ColSet(t) THEN NullColumn(t, col_name) ELSE t

\* body of the second loop, protective: the current year is only created when
\* absent; a prior year is created from its shadow, or has only its nulls
\* filled from it, or is created all-null when on neither side
FixYearColumnProtective(t, col_name, current_year) ==
    LET past_col_name == Tagged(col_name, "_past")
    IN  IF col_name.year = current_year
        THEN IF col_name \notin ColSet(t) THEN NullColumn(t, col_name) ELSE t
        ELSE IF past_col_name \in ColSet(t)
             THEN IF col_name \notin ColSet(t)
                  THEN WithColumn(t, col_name, ColValues(t, past_col_name))
                  ELSE WithColumn(t, col_name, WhenNullThen(t, col_name, past_col_name))
             ELSE IF col_name \notin ColSet(t) THEN NullColumn(t, col_name) ELSE t

RECURSIVE FixYearColumnsProtective(_, _, _)
FixYearColumnsProtective(t, cols, current_year) ==
    IF Len(cols) = 0 THEN t
    ELSE FixYearColumnsProtective(
             FixYearColumnProtective(t, Head(cols), current_year),
             Tail(cols), current_year)

\* a last loop that drops nothing
KeepPastColumns(t, past_columns) == t

\* last loop: every column that ended in "_past" is dropped
DropPastColumns(t, past_columns) ==
    LET pset == Range(past_columns)
    IN  SelectCols(t, SelectSeq(t.cols, LAMBDA c : c \notin pset))

fix_full_join_nulls(t, years_list, current_year) ==
    LET past_columns == PastColumns(t)
        t1 == FixIdColumns(t, past_columns, years_list)
        t2 == FixYearColumnsProtective(t1, ExpectedCols(years_list, current_year),
                                       current_year)
    IN  DropPastColumns(t2, past_columns)

\* the keys of the product join: those both frames have
ProductJoinKeys(a, b) ==
    SelectSeq(PRODUCT_JOIN_KEYS, LAMBDA k : k \in ColSet(a) /\ k \in ColSet(b))

\* merge_dataframes: [raised, df]; a is the current and b the historical
\* table of each dimension
merge_dataframes(a, b, years, current_year) ==
    IF is_empty(b["corp"])
    THEN [raised |-> FALSE, df |-> a]
    ELSE LET b1 == add_past_suffix(b["corp"], CORP_JOIN_KEYS)
             b2 == add_past_suffix(b["cust"], CUST_JOIN_KEYS)
             b3 == add_past_suffix(b["prod"], PRODUCT_JOIN_KEYS)
             join_keys == ProductJoinKeys(a["prod"], b["prod"])
             join3 == ~is_empty(b["prod"]) /\ Len(join_keys) > 0
             raised == \/ JoinRaises(a["corp"], b1, CORP_JOIN_KEYS, CORP_JOIN_KEYS)
                       \/ JoinRaises(a["cust"], b2, CUST_JOIN_KEYS, CUST_JOIN_KEYS)
                       \/ join3 /\ JoinRaises(a["prod"], b3, join_keys, join_keys)
         IN  IF raised
             THEN [raised |-> TRUE, df |-> [d \in Dims |-> EmptyFrame]]
             ELSE [raised |-> FALSE,
                   df |-> [d \in Dims |->
                      fix_full_join_nulls(
                          CASE d = "corp" ->
                                 JoinFull(a["corp"], b1, CORP_JOIN_KEYS, CORP_JOIN_KEYS)
                            [] d = "cust" ->
                                 JoinFull(a["cust"], b2, CUST_JOIN_KEYS, CUST_JOIN_KEYS)
                            [] d = "prod" ->
                                 IF join3
                                 THEN JoinFull(a["prod"], b3, join_keys, join_keys)
                                 ELSE a["prod"],
                          years, current_year)]]

-----------------------------------------------------------------------------
(* Authoritative merge: 02_merge_past_data_2Q.py *)

\* _add_past_suffix: every column is renamed col + "_past", keys included
add_past_suffix_2Q(t, key_columns) ==
    RenameCols(t, [c \in ColSet(t) |-> Tagged(c, "_past")])

\* a reconciliation that keeps what a prior-year column already holds
FixYearColumnKeepsExisting(t, col_name, current_year) ==
    LET past_col_name == Tagged(col_name, "_past")
    IN  IF past_col_name \in ColSet(t) /\ col_name \notin ColSet(t)
        THEN WithColumn(t, col_name, ColValues(t, past_col_name))
        ELSE IF col_name \notin ColSet(t) THEN NullColumn(t, col_name) ELSE t

\* body of the second loop, authoritative: a prior year whose shadow exists
\* takes the shadow's value, whatever the column held
FixYearColumnAuthoritative(t, col_name, current_year) ==
    LET past_col_name == Tagged(col_name, "_past")
    IN  IF col_name.year = current_year
        THEN IF col_name \notin ColSet(t) THEN NullColumn(t, col_name) ELSE t
        ELSE IF past_col_name \in ColSet(t)
             THEN WithColumn(t, col_name, ColValues(t, past_col_name))
             ELSE IF col_name \notin ColSet(t) THEN NullColumn(t, col_name) ELSE t

RECURSIVE FixYearColumnsAuthoritative(_, _, _)
FixYearColumnsAuthoritative(t, cols, current_year) ==
    IF Len(cols) = 0 THEN t
    ELSE FixYearColumnsAuthoritative(
             FixYearColumnAuthoritative(t, Head(cols), current_year),
             Tail(cols), current_year)

fix_full_join_nulls_2Q(t, years_list, current_year) ==
    LET past_columns == PastColumns(t)
        t1 == FixIdColumns(t, past_columns, years_list)
        t2 == FixYearColumnsAuthoritative(t1, ExpectedCols(years_list, current_year),
                                          current_year)
    IN  DropPastColumns(t2, past_columns)

PastKeys(keys) == [i \in 1..Len(keys) |-> Tagged(keys[i], "_past")]

\* merge_data: [raised, df]; the company codes of both sides are read first,
\* then each dimension is joined on its full key list
merge_data(a, b, years, current_year) ==
    LET bp == [d \in Dims |-> add_past_suffix_2Q(b[d], <<>>)]
        raised == \/ IdCol("corp_code") \notin ColSet(a["corp"])
                  \/ IdCol("corp_code") \notin ColSet(b["corp"])
                  \/ \E d \in Dims :
                        JoinRaises(a[d], bp[d], JoinKeys(d), PastKeys(JoinKeys(d)))
    IN  IF raised
        THEN [raised |-> TRUE, df |-> [d \in Dims |-> EmptyFrame]]
        ELSE [raised |-> FALSE,
              df |-> [d \in Dims |->
                 fix_full_join_nulls_2Q(
                     JoinFull(a[d], bp[d], JoinKeys(d), PastKeys(JoinKeys(d))),
                     years, current_year)]]

-----------------------------------------------------------------------------
(* The run: ledger -> current tables -> merge with the historical tables *)

NoFrames == [d \in Dims |-> EmptyFrame]

\* a totals snapshot without an entry
NoTotals == [p \in {} |-> 0]

\* nothing after the merge has run
TailIdle ==
    /\ master = EmptyFrame
    /\ totals = [before |-> NoTotals, after |-> NoTotals]
    /\ checks = <<>>
    /\ saved = <<>>
    /\ signal = "running"

\* a sheet without content: no cell
NoCells == [p \in {} |-> 0]

\* no clock has been read and no transfer has started
ExtIdle ==
    /\ clock = [year |-> 0, month |-> 0]
    /\ fiscal = <<>>
    /\ app = "none"
    /\ wb = "none"
    /\ book = [d \in Dims |-> NoCells]
    /\ moved = {}

Init ==
    /\ raw \in RawLedgers
    /\ df_b \in HistFiles(raw)
    /\ df_a = NoFrames
    /\ df_pre = NoFrames
    /\ df = NoFrames
    /\ pc = "ledger"
    /\ variant = "none"
    /\ TailIdle
    /\ ExtIdle

\* 01_create_data.py main: the three aggregate files are written
CreateData ==
    /\ pc = "ledger"
    /\ df_a' = create_data(raw, CurrentYear)
    /\ pc' = "created"
    /\ UNCHANGED <<raw, df_b, df_pre, df, variant>>
    /\ UNCHANGED tail
    /\ UNCHANGED ext

\* 02_merge_past_data.py: merge_dataframes on the loaded tables
MergeDataframes ==
    /\ pc = "created"
    /\ LET m == merge_dataframes(df_a, df_b, Years, CurrentYear)
       IN  /\ df' = m.df
           /\ pc' = IF m.raised THEN "failed" ELSE "merged"
    /\ df_pre' = df
    /\ variant' = "protective"
    /\ UNCHANGED <<raw, df_a, df_b>>
    /\ UNCHANGED tail
    /\ UNCHANGED ext

\* 02_merge_past_data_2Q.py: merge_data on the loaded tables
MergeData ==
    /\ pc = "created"
    /\ LET m == merge_data(df_a, df_b, Years, CurrentYear)
       IN  /\ df' = m.df
           /\ pc' = IF m.raised THEN "failed" ELSE "merged"
    /\ df_pre' = df
    /\ variant' = "authoritative"
    /\ UNCHANGED <<raw, df_a, df_b>>
    /\ UNCHANGED tail
    /\ UNCHANGED ext

Next == CreateData \/ MergeDataframes \/ MergeData

Spec == Init /\ [][Next]_vars

-----------------------------------------------------------------------------
(* Reconciliation alone: fix_full_join_nulls and _fix_full_join_nulls applied
   to a joined table *)

\* rows of a joined table considered
MaxJoinedRows == 2

\* the columns a joined table may have beside the key and the current year:
\* last year's revenue, its shadow, and the shadow of the current year
JoinedOptionalCols ==
    <<MetricCol(CurrentYear - 1, "sales"),
      Tagged(MetricCol(CurrentYear - 1, "sales"), "_past"),
      Tagged(MetricCol(CurrentYear, "sales"), "_past")>>

\* the values a cell of a joined table may hold: null or the value of its side
JoinedValues(c) ==
    CASE c = IdCol("corp_code")  -> {1}
      [] c.tag = "_past"         -> {Null, 9}
      [] c.year = CurrentYear    -> {Null, 100}
      [] OTHER                   -> {Null, 5}

\* the subsequences of a sequence
SubSeqs(s) ==
    {SelectSeq(s, LAMBDA c : c \in keep) : keep \in SUBSET Range(s)}

JoinedFrames ==
    UNION { LET cols == <<IdCol("corp_code"), MetricCol(CurrentYear, "sales")>> \o opt
                RowSet == {r \in [Range(cols) -> {Null, 1, 5, 9, 100}] :
                              \A c \in Range(cols) : r[c] \in JoinedValues(c)}
            IN  {[cols |-> cols, rows |-> rows] :
                    rows \in UNION {[1..m -> RowSet] : m \in 0..MaxJoinedRows}}
          : opt \in SubSeqs(JoinedOptionalCols) }

InitFix ==
    /\ raw = <<>>
    /\ df_a = NoFrames
    /\ df_b = NoFrames
    /\ df_pre \in {[d \in Dims |-> IF d = "corp" THEN j ELSE EmptyFrame] :
                      j \in JoinedFrames}
    /\ df = NoFrames
    /\ pc = "joined"
    /\ variant = "none"
    /\ TailIdle
    /\ ExtIdle

\* 02_merge_past_data.py: fix_full_join_nulls on each joined table
FixFullJoinNulls ==
    /\ pc = "joined"
    /\ df' = [d \in Dims |-> fix_full_join_nulls(df_pre[d], Years, CurrentYear)]
    /\ pc' = "fixed"
    /\ variant' = "protective"
    /\ UNCHANGED <<raw, df_a, df_b, df_pre>>
    /\ UNCHANGED tail
    /\ UNCHANGED ext

\* 02_merge_past_data_2Q.py: _fix_full_join_nulls on each joined table
FixFullJoinNulls2Q ==
    /\ pc = "joined"
    /\ df' = [d \in Dims |-> fix_full_join_nulls_2Q(df_pre[d], Years, CurrentYear)]
    /\ pc' = "fixed"
    /\ variant' = "authoritative"
    /\ UNCHANGED <<raw, df_a, df_b, df_pre>>
    /\ UNCHANGED tail
    /\ UNCHANGED ext

NextFix == FixFullJoinNulls \/ FixFullJoinNulls2Q

SpecFix == InitFix /\ [][NextFix]_vars

-----------------------------------------------------------------------------
(* Backfill of missing codes: fill_missing_index_columns *)

\* df.select([name, code]).unique().drop_nulls(): the distinct (name, code)
\* pairs without a null, here in order of first appearance (polars leaves the
\* order open)
NameCodeMapping(b, name_col, code_col) ==
    SelectSeq(Distinct(SelectCols(b, <<name_col, code_col>>).rows),
              LAMBDA m : ~is_null(m[name_col]) /\ ~is_null(m[code_col]))

\* the names the mapping gives more than one code
DuplicateNames(mapping, name_col) ==
    {mapping[i][name_col] : i \in
        {i \in 1..Len(mapping) :
            \E j \in 1..Len(mapping) :
                j # i /\ mapping[j][name_col] = mapping[i][name_col]}}

\* group_by(name).first(): one row per name, with one of its codes; which
\* one is not determined, first_of picks it
GroupByFirst(mapping, name_col, code_col, first_of) ==
    LET names == Distinct([i \in 1..Len(mapping) |-> mapping[i][name_col]])
    IN  [i \in 1..Len(names) |->
            [c \in {name_col, code_col} |->
                IF c = name_col THEN names[i] ELSE first_of[names[i]]]]

\* the ways first() can pick a code for each name
FirstChoices(mapping, name_col, code_col) ==
    LET names == {mapping[i][name_col] : i \in 1..Len(mapping)}
        codes == {mapping[i][code_col] : i \in 1..Len(mapping)}
    IN  {f \in [names -> codes] :
            \A n \in names :
                \E i \in 1..Len(mapping) :
                    mapping[i][name_col] = n /\ mapping[i][code_col] = f[n]}

\* the left join on the name, then coalesce(code, completed code) and the drop
\* of the completed code: one row per matching mapping row, the row itself
\* when nothing matches
LeftJoinCoalesce(t, mapping, name_col, code_col) ==
    LET Matches(r) ==
            SelectSeq(mapping,
                      LAMBDA m : ~is_null(r[name_col]) /\ m[name_col] = r[name_col])
        Fill(r, m) ==
            [r EXCEPT ![code_col] = IF is_null(r[code_col]) THEN m[code_col]
                                    ELSE r[code_col]]
    IN  [t EXCEPT !.rows =
            Concat([i \in 1..Len(t.rows) |->
                      IF Len(Matches(t.rows[i])) = 0
                      THEN <<t.rows[i]>>
                      ELSE [j \in 1..Len(Matches(t.rows[i])) |->
                               Fill(t.rows[i], Matches(t.rows[i])[j])]])]

\* df.unique(subset=keys): one row per key, here the first
UniqueSubset(t, keys) ==
    [t EXCEPT !.rows =
        SelectSeq([i \in 1..Len(t.rows) |-> [idx |-> i, row |-> t.rows[i]]],
                  LAMBDA e : \A j \in 1..(e.idx - 1) :
                                \E k \in Range(keys) : t.rows[j][k] # e.row[k])]

\* there is a row with a null code and a name
HasFillTarget(t, name_col, code_col) ==
    \E i \in 1..Len(t.rows) :
        is_null(t.rows[i][code_col]) /\ ~is_null(t.rows[i][name_col])

\* the company branch
FillCorp(t, b, first_of) ==
    LET name_col == IdCol("corp_name")
        code_col == IdCol("corp_code")
    IN  IF /\ Len(t.rows) > 0 /\ Len(b.rows) > 0
           /\ name_col \in ColSet(t) /\ name_col \in ColSet(b) /\ code_col \in ColSet(b)
           /\ HasFillTarget(t, name_col, code_col)
        THEN LET all == NameCodeMapping(b, name_col, code_col)
                 past_mapping == IF DuplicateNames(all, name_col) # {}
                                 THEN GroupByFirst(all, name_col, code_col, first_of)
                                 ELSE all
                 filled == LeftJoinCoalesce(t, past_mapping, name_col, code_col)
                 dedup == UniqueSubset(filled, <<code_col, name_col>>)
             IN  IF Len(filled.rows) > Len(t.rows) /\ Len(dedup.rows) < Len(filled.rows)
                 THEN dedup ELSE filled
        ELSE t

\* the customer branch
FillCust(t, b) ==
    LET name_col == IdCol("cust_name")
        code_col == IdCol("cust_code")
    IN  IF /\ Len(t.rows) > 0 /\ Len(b.rows) > 0
           /\ name_col \in ColSet(t) /\ name_col \in ColSet(b) /\ code_col \in ColSet(b)
           /\ HasFillTarget(t, name_col, code_col)
        THEN LeftJoinCoalesce(t, NameCodeMapping(b, name_col, code_col),
                              name_col, code_col)
        ELSE t

\* fill_missing_index_columns: t the merged and b the historical tables; the
\* product table is only counted
fill_missing_index_columns(t, b, first_of) ==
    IF is_empty(b["corp"]) THEN t
    ELSE [d \in Dims |->
            CASE d = "corp" -> FillCorp(t["corp"], b["corp"], first_of)
              [] d = "cust" -> FillCust(t["cust"], b["cust"])
              [] d = "prod" -> t["prod"]]

\* rows of a table to fill, and of a historical table, considered
MaxFillRows == 2

MaxFillPast == 2

\* (code, name) of the rows of the tables to fill and of the historical tables
FillIds == <<<<Null, 11>>, <<1, 11>>, <<2, 11>>, <<Null, Null>>, <<2, 12>>>>

FillPastIds == <<<<1, 11>>, <<2, 11>>, <<2, 12>>>>

\* a company or customer table of the given (code, name) rows, with one
\* metric column holding v
IdentFrame(d, ids, c, v) ==
    LET code_col == IF d = "corp" THEN IdCol("corp_code") ELSE IdCol("cust_code")
        name_col == IF d = "corp" THEN IdCol("corp_name") ELSE IdCol("cust_name")
    IN  [cols |-> <<code_col, name_col, c>>,
         rows |-> [i \in 1..Len(ids) |->
                     [k \in {code_col, name_col, c} |->
                         IF k = code_col THEN ids[i][1]
                         ELSE IF k = name_col THEN ids[i][2] ELSE v]]]

IdentFrames(ids, c, v) ==
    [d \in Dims |-> IF d = "prod" THEN EmptyFrame ELSE IdentFrame(d, ids, c, v)]

InitFill ==
    /\ raw = <<>>
    /\ df_a = NoFrames
    /\ df_b \in {IdentFrames([i \in 1..Len(s) |-> FillPastIds[s[i]]],
                             MetricCol(CurrentYear - 1, "sales"), 50) :
                    s \in SortedSeqs(Len(FillPastIds), MaxFillPast)}
    /\ df_pre = NoFrames
    /\ df \in {IdentFrames([i \in 1..Len(s) |-> FillIds[s[i]]],
                           MetricCol(CurrentYear, "sales"), 100) :
                  s \in SortedSeqs(Len(FillIds), MaxFillRows)}
    /\ pc = "reordered"
    /\ variant = "none"
    /\ TailIdle
    /\ ExtIdle

\* fill_missing_index_columns on merged tables, with the historical tables
FillMissingIndexColumns ==
    /\ pc = "reordered"
    /\ \E first_of \in FirstChoices(NameCodeMapping(df_b["corp"], IdCol("corp_name"),
                                                    IdCol("corp_code")),
                                    IdCol("corp_name"), IdCol("corp_code")) :
          df' = fill_missing_index_columns(df, df_b, first_of)
    /\ df_pre' = df
    /\ pc' = "filled"
    /\ UNCHANGED <<raw, df_a, df_b, variant>>
    /\ UNCHANGED tail
    /\ UNCHANGED ext

NextFill == FillMissingIndexColumns

SpecFill == InitFill /\ [][NextFill]_vars

-----------------------------------------------------------------------------
(* The scripts after the load: main() of 02_merge_past_data.py and run() of
   02_merge_past_data_2Q.py *)

\* legacy aliases of the customer columns in historical files:
\* torihikisaki code, torihikisaki mei, tokuisaki
ALIAS_CODE == IdCol("partner_code")

ALIAS_NAME == IdCol("partner_name")

ALIAS_CUST == IdCol("cust")

\* the renames of the customer table and of the product table
CUST_ALIASES ==
    (ALIAS_CODE :> IdCol("cust_code")) @@ (ALIAS_NAME :> IdCol("cust_name"))

PROD_ALIASES == (ALIAS_CUST :> IdCol("cust_name"))

\* df.rename(pairs) raises when a column to rename is absent, or when a new
\* name is that of a column that stays
RenameRaises(t, pairs) ==
    \/ \E c \in DOMAIN pairs : c \notin ColSet(t)
    \/ \E c \in DOMAIN pairs : pairs[c] \in ColSet(t) \ DOMAIN pairs

\* df.rename(pairs)
Rename(t, pairs) ==
    RenameCols(t, [c \in ColSet(t) |-> IF c \in DOMAIN pairs THEN pairs[c] ELSE c])

\* rename_columns: [raised, cust, prod]; nothing is renamed when one of the
\* two tables has no rows, and the two customer aliases are renamed together
\* when the code alias is there
rename_columns(df2_b, df3_b) ==
    IF is_empty(df2_b) \/ is_empty(df3_b)
    THEN [raised |-> FALSE, cust |-> df2_b, prod |-> df3_b]
    ELSE LET do2 == ALIAS_CODE \in ColSet(df2_b)
             do3 == ALIAS_CUST \in ColSet(df3_b)
         IN  IF \/ do2 /\ RenameRaises(df2_b, CUST_ALIASES)
                \/ do3 /\ RenameRaises(df3_b, PROD_ALIASES)
             THEN [raised |-> TRUE, cust |-> df2_b, prod |-> df3_b]
             ELSE [raised |-> FALSE,
                   cust |-> IF do2 THEN Rename(df2_b, CUST_ALIASES) ELSE df2_b,
                   prod |-> IF do3 THEN Rename(df3_b, PROD_ALIASES) ELSE df3_b]

\* the renames among pairs whose column the table has
PresentAliases(t, pairs) == [c \in DOMAIN pairs \cap ColSet(t) |-> pairs[c]]

\* preprocess_past_data: [raised, cust, prod]; each alias the table has is
\* renamed
preprocess_past_data(df2_past, df3_past) ==
    LET m2 == PresentAliases(df2_past, CUST_ALIASES)
        m3 == PresentAliases(df3_past, PROD_ALIASES)
    IN  IF RenameRaises(df2_past, m2) \/ RenameRaises(df3_past, m3)
        THEN [raised |-> TRUE, cust |-> df2_past, prod |-> df3_past]
        ELSE [raised |-> FALSE,
              cust |-> Rename(df2_past, m2),
              prod |-> Rename(df3_past, m3)]

-----------------------------------------------------------------------------
(* The verifier of 02_merge_past_data.py: DataIntegrityValidator *)

\* col.endswith("uriage"): the revenue columns, not the quantity columns
EndsWithSales(c) == c.name = "sales" /\ c.tag = ""

\* validate_data_totals: a snapshot is a function from (column, dimension)
\* to the total; it is empty when the company table has no rows, and holds the
\* revenue columns of the company table that the three tables have
validate_data_totals(t) ==
    IF is_empty(t["corp"]) THEN NoTotals
    ELSE LET cs == {c \in ColSet(t["corp"]) :
                       EndsWithSales(c) /\ \A d \in Dims : c \in ColSet(t[d])}
         IN  [p \in cs \X Dims |-> ColSum(t[p[2]], p[1])]

SnapshotColumns(snap) == {p[1] : p \in DOMAIN snap}

Abs(x) == IF x < 0 THEN -x ELSE x

\* the thresholds of compare_totals, in yen
DIFF_CRITICAL == 1000000

DIFF_WARNING == 100000

\* a comparison that counts only the differences above the critical
\* threshold
CompareTotalsCriticalOnly(before, after) ==
    LET all_sales_columns == SnapshotColumns(before) \cup SnapshotColumns(after)
    IN  IF all_sales_columns = {} THEN FALSE
        ELSE \A c \in all_sales_columns :
                /\ c \in SnapshotColumns(after)
                /\ c \in SnapshotColumns(before) =>
                      \A d \in Dims :
                          Abs(after[<<c, d>>] - before[<<c, d>>]) <= DIFF_CRITICAL
                /\ after[<<c, "corp">>] = after[<<c, "cust">>]
                /\ after[<<c, "cust">>] = after[<<c, "prod">>]

\* compare_totals: True when no issue was counted.  An issue is a column of
\* either snapshot that the later one lacks, a total that moved by more than
\* a threshold, or a column whose three totals in the later snapshot differ
compare_totals(before, after) ==
    LET all_sales_columns == SnapshotColumns(before) \cup SnapshotColumns(after)
        Moved(c, d) ==
            /\ c \in SnapshotColumns(before)
            /\ after[<<c, d>>] # before[<<c, d>>]
            /\ LET diff_abs == Abs(after[<<c, d>>] - before[<<c, d>>])
               IN  diff_abs > DIFF_CRITICAL \/ diff_abs > DIFF_WARNING
        Inconsistent(c) ==
            \/ after[<<c, "corp">>] # after[<<c, "cust">>]
            \/ after[<<c, "cust">>] # after[<<c, "prod">>]
            \/ after[<<c, "corp">>] # after[<<c, "prod">>]
    IN  IF all_sales_columns = {} THEN FALSE
        ELSE \A c \in all_sales_columns :
                /\ c \in SnapshotColumns(after)
                /\ \A d \in Dims : ~Moved(c, d)
                /\ ~Inconsistent(c)

-----------------------------------------------------------------------------
(* The steps of main() after merge_dataframes *)

\* df.join(r, on=on, how="left", suffix=suffix): the keys of the right frame
\* are not kept; another column of the right frame whose name the left frame
\* has gets the suffix
LeftJoin(l, r, on, suffix) ==
    LET kset   == Range(on)
        rother == SelectSeq(r.cols, LAMBDA c : c \notin kset)
        rname  == [c \in Range(rother) |->
                      IF c \in ColSet(l) THEN Tagged(c, suffix) ELSE c]
        rcols  == [i \in 1..Len(rother) |-> rname[rother[i]]]
        cols   == l.cols \o rcols
        orig   == [c \in Range(rcols) |-> CHOOSE k \in Range(rother) : rname[k] = c]
        NullR  == [c \in ColSet(r) |-> Null]
        Row(a, b) == [c \in Range(cols) |-> IF c \in ColSet(l) THEN a[c] ELSE b[orig[c]]]
        Matches(a) == SelectSeq(r.rows, LAMBDA b : JoinMatch(a, b, on, on))
    IN  [cols |-> cols,
         rows |-> Concat([i \in 1..Len(l.rows) |->
                      IF Len(Matches(l.rows[i])) = 0
                      THEN <<Row(l.rows[i], NullR)>>
                      ELSE [j \in 1..Len(Matches(l.rows[i])) |->
                               Row(l.rows[i], Matches(l.rows[i])[j])]])]

\* the left join raises when a key column is missing on a side
LeftJoinRaises(l, r, on) ==
    \E k \in Range(on) : k \notin ColSet(l) \/ k \notin ColSet(r)

\* pl.coalesce([pl.col(a), pl.col(b)])
Coalesce(t, a, b) ==
    [i \in 1..Len(t.rows) |->
        IF is_null(t.rows[i][a]) THEN t.rows[i][b] ELSE t.rows[i][a]]

\* the join with the master and the union of the two names, the suffixed
\* name being name_new
JoinMaster(df1, df1_c, suffix) ==
    LET name     == IdCol("corp_name")
        name_new == Tagged(name, suffix)
        j == LeftJoin(df1, df1_c, CORP_JOIN_KEYS, suffix)
    IN  IF name \in ColSet(j) /\ name_new \in ColSet(j)
        THEN DropCol(WithColumn(j, name, Coalesce(j, name, name_new)), name_new)
        ELSE IF name_new \in ColSet(j)
             THEN Rename(j, name_new :> name)
             ELSE j

\* merge_with_master: [raised, df]
merge_with_master(df1, df1_c) ==
    IF LeftJoinRaises(df1, df1_c, CORP_JOIN_KEYS)
    THEN [raised |-> TRUE, df |-> df1]
    ELSE [raised |-> FALSE, df |-> JoinMaster(df1, df1_c, "_new")]

\* the columns aggregate_product_data may group by (there is no staff column
\* in the files 01_create_data.py writes)
POTENTIAL_GROUP_COLS ==
    <<IdCol("office_name"), IdCol("staff_name"), IdCol("cust_code"),
      IdCol("cust_name"), IdCol("layer1"), IdCol("item_code"), IdCol("item_name")>>

\* dtype in [pl.Int64, pl.Float64]: the metric columns; identity columns are
\* Utf8
IsNumeric(c) == c.year # 0

\* aggregate_product_data: the numeric columns summed per group; the other
\* columns outside the group are not kept
aggregate_product_data(df3) ==
    LET group_cols   == SelectSeq(POTENTIAL_GROUP_COLS, LAMBDA c : c \in ColSet(df3))
        numeric_cols == SelectSeq(df3.cols, LAMBDA c : c \notin Range(group_cols))
        agg_cols     == SelectSeq(numeric_cols, IsNumeric)
    IN  IF Len(group_cols) > 0 /\ Len(agg_cols) > 0
        THEN GroupBySum(df3, group_cols, agg_cols, {})
        ELSE df3

\* the base columns of reorder_columns per table
BaseCols(d, df3, year) ==
    CASE d = "corp" -> <<IdCol("corp_code"), IdCol("corp_name"), MetricCol(year, "qty")>>
      [] d = "cust" -> <<IdCol("cust_code"), IdCol("cust_name"), MetricCol(year, "qty")>>
      [] d = "prod" -> SelectSeq(Append(POTENTIAL_GROUP_COLS, MetricCol(year, "qty")),
                                 LAMBDA c : c \in ColSet(df3))

\* get_year_cols: the columns with a year of the list in their name, but the
\* quantity of last year and the base columns of any table
get_year_cols(columns, df3, year, years) ==
    SelectSeq(columns,
              LAMBDA c : /\ HasYear(c, years)
                         /\ ~(c.year = year - 1 /\ c.name = "qty" /\ c.tag = "")
                         /\ \A d \in Dims : c \notin Range(BaseCols(d, df3, year)))

\* safe_select: the columns of the list the table has; the table as it is
\* when it has none of them
safe_select(t, columns) ==
    LET existing_cols == SelectSeq(columns, LAMBDA c : c \in ColSet(t))
    IN  IF Len(existing_cols) > 0 THEN SelectCols(t, existing_cols) ELSE t

\* a reorder that leaves the columns where they are
KeepColumnOrder(t, year, years) == t

reorder_columns(t, year, years) ==
    [d \in Dims |->
        safe_select(t[d], BaseCols(d, t["prod"], year)
                          \o get_year_cols(t[d].cols, t["prod"], year, years))]

\* pl.col(c).fill_null(0)
FillNull0(t, c) ==
    WithColumn(t, c, [i \in 1..Len(t.rows) |->
                        IF is_null(t.rows[i][c]) THEN 0 ELSE t.rows[i][c]])

\* the order of two values in a sort: nulls come first
Precedes(a, b, descending) ==
    \/ is_null(a) /\ ~is_null(b)
    \/ ~is_null(a) /\ ~is_null(b) /\ IF descending THEN a > b ELSE a < b

\* row r1 must come before row r2 in a sort by the columns by
RowPrecedes(r1, r2, by, descending) ==
    \E k \in 1..Len(by) :
        /\ \A j \in 1..(k - 1) : r1[by[j]] = r2[by[j]]
        /\ Precedes(r1[by[k]], r2[by[k]], descending[k])

\* df.sort(by, descending=descending): the sort is not stable, rows that tie
\* come in any order
Sorts(t, by, descending) ==
    LET n == Len(t.rows)
        perms == {p \in [1..n -> 1..n] :
                     /\ \A i, j \in 1..n : p[i] = p[j] => i = j
                     /\ \A i, j \in 1..n :
                           i < j => ~RowPrecedes(t.rows[p[j]], t.rows[p[i]],
                                                 by, descending)}
    IN  {[t EXCEPT !.rows = [i \in 1..n |-> t.rows[p[i]]]] : p \in perms}

\* a table is sorted when there is a column to sort it by
SortOrKeep(t, by, descending) ==
    IF Len(by) = 0 THEN {t} ELSE Sorts(t, by, descending)

\* the sort raises when a column to sort by is missing
SortRaises(t, by) == \E k \in 1..Len(by) : by[k] \notin ColSet(t)

\* the columns sort_dataframes sorts each table by, and the directions: the
\* revenue of the current year when the company table has it, otherwise the
\* first revenue column of the company table
SortPlan(t, d, years, current_year) ==
    LET current_sales_col == MetricCol(current_year, "sales")
        sort_columns == SelectSeq([i \in 1..Len(years) |-> MetricCol(years[i], "sales")],
                                  LAMBDA c : c \in ColSet(t["corp"]))
    IN  IF current_sales_col \in ColSet(t["corp"])
        THEN IF d = "prod"
             THEN [by |-> <<current_sales_col, IdCol("office_name")>>,
                   descending |-> <<TRUE, FALSE>>]
             ELSE [by |-> <<current_sales_col>>, descending |-> <<TRUE>>]
        ELSE IF d = "prod"
             THEN [by |-> <<IdCol("office_name"), IdCol("cust_name"), IdCol("layer1")>>,
                   descending |-> <<FALSE, FALSE, FALSE>>]
             ELSE IF Len(sort_columns) > 0
                  THEN [by |-> <<sort_columns[1]>>, descending |-> <<TRUE>>]
                  ELSE [by |-> <<>>, descending |-> <<>>]

\* sort_dataframes: the set of results the sort may give; empty when it raises
sort_dataframes(t, years, current_year) ==
    LET current_sales_col == MetricCol(current_year, "sales")
        filled == IF current_sales_col \in ColSet(t["corp"])
                  THEN [d \in Dims |-> FillNull0(t[d], current_sales_col)]
                  ELSE t
        Plan(d) == SortPlan(t, d, years, current_year)
    IN  IF \E d \in Dims : SortRaises(t[d], Plan(d).by)
        THEN {}
        ELSE {[d \in Dims |->
                  CASE d = "corp" -> s1 [] d = "cust" -> s2 [] d = "prod" -> s3] :
                 s1 \in SortOrKeep(filled["corp"], Plan("corp").by, Plan("corp").descending),
                 s2 \in SortOrKeep(filled["cust"], Plan("cust").by, Plan("cust").descending),
                 s3 \in SortOrKeep(filled["prod"], Plan("prod").by, Plan("prod").descending)}

\* ProcessConfig.CODE_COLUMNS
CODE_COLUMNS == <<IdCol("corp_code"), IdCol("cust_code"), IdCol("item_code")>>

\* Expr.cast(pl.Utf8) of a code: the codes are read as Utf8 from the ledger,
\* the master and the files, and the cast of a string is that string
cast_Utf8(v) == v

\* convert_data_types: the code columns a table has are cast to Utf8
convert_data_types(t) ==
    [d \in Dims |->
        [t[d] EXCEPT !.rows =
            [i \in 1..Len(t[d].rows) |->
                [c \in ColSet(t[d]) |->
                    IF c \in Range(CODE_COLUMNS) THEN cast_Utf8(t[d].rows[i][c])
                    ELSE t[d].rows[i][c]]]]]

-----------------------------------------------------------------------------
(* The steps of run() around merge_data *)

\* load_past_year_data raises when one of the three files does not exist
load_past_year_data_raises(b) == \E d \in Dims : b[d] = EmptyFrame

\* the year columns the verification of run() looks at
YearColumns == Range(ExpectedCols(Years, CurrentYear))

\* get_yearly_values_before_merge, its "all_years": a function from (column,
\* dimension) to the total; the value of the current tables when the company
\* table and the table of the dimension have the column, else that of the
\* historical tables, for a column of a prior year
get_yearly_values_before_merge(a, b) ==
    LET InCurrent(c, d) == c \in ColSet(a["corp"]) /\ c \in ColSet(a[d])
        InPast(c, d) == /\ c.year # CurrentYear
                        /\ c \in ColSet(b["corp"]) /\ c \in ColSet(b[d])
        held == {p \in YearColumns \X Dims :
                    InCurrent(p[1], p[2]) \/ InPast(p[1], p[2])}
    IN  [p \in held |-> IF InCurrent(p[1], p[2])
                        THEN ColSum(a[p[2]], p[1])
                        ELSE ColSum(b[p[2]], p[1])]

\* get_yearly_values_after_merge
get_yearly_values_after_merge(t) ==
    [p \in {q \in YearColumns \X Dims : q[1] \in ColSet(t[q[2]])} |->
        ColSum(t[p[2]], p[1])]

\* compare_yearly_values: the entries of both snapshots that differ
compare_yearly_values(before_values, after_values) ==
    {p \in DOMAIN before_values \cap DOMAIN after_values :
        before_values[p] # after_values[p]}

\* add_master_data: [raised, df]; the name is read at the end
add_master_data(df1_merged, df_master) ==
    IF LeftJoinRaises(df1_merged, df_master, CORP_JOIN_KEYS)
    THEN [raised |-> TRUE, df |-> df1_merged]
    ELSE LET j == JoinMaster(df1_merged, df_master, "_master")
         IN  [raised |-> IdCol("corp_name") \notin ColSet(j), df |-> j]

\* process_product_data: [raised, df]; the staff column is dropped and every
\* other column is summed per product key
process_product_data(df3_merged) ==
    LET staff == IdCol("staff_name")
        t == IF staff \in ColSet(df3_merged) THEN DropCol(df3_merged, staff)
             ELSE df3_merged
        numeric_columns == SelectSeq(t.cols, LAMBDA c : c \notin Range(PRODUCT_JOIN_KEYS))
    IN  IF \E k \in Range(PRODUCT_JOIN_KEYS) : k \notin ColSet(t)
        THEN [raised |-> TRUE, df |-> df3_merged]
        ELSE [raised |-> FALSE,
              df |-> GroupBySum(t, PRODUCT_JOIN_KEYS, numeric_columns, {})]

\* the identity columns reorder_columns of run() puts first
OrderedIdCols(d) ==
    CASE d = "corp" -> <<IdCol("corp_code"), IdCol("corp_name")>>
      [] d = "cust" -> CUST_JOIN_KEYS
      [] d = "prod" -> PRODUCT_JOIN_KEYS

\* reorder_columns of run(): the identity columns and the year columns the
\* table has, in the order of the years
reorder_columns_2Q(t) ==
    [d \in Dims |->
        SelectCols(t[d],
                   SelectSeq(OrderedIdCols(d) \o ExpectedCols(Years, CurrentYear),
                             LAMBDA c : c \in ColSet(t[d])))]

RECURSIVE FillNull0All(_, _)
FillNull0All(t, cs) ==
    IF Len(cs) = 0 THEN t ELSE FillNull0All(FillNull0(t, Head(cs)), Tail(cs))

\* fix_data_types: the codes are cast to Utf8, and the nulls of the year
\* columns become 0
fix_data_types(t) ==
    LET typed == convert_data_types(t)
    IN  [d \in Dims |->
            FillNull0All(typed[d],
                         SelectSeq(ExpectedCols(Years, CurrentYear),
                                   LAMBDA c : c \in ColSet(typed[d])))]

\* office_order of sort_data: the place of an office in the list, and the
\* length of the list for an office that is not in it; the offices of the
\* model are numbered as the list is
OFFICE_COUNT == 6

OfficeOrder(v) ==
    IF is_null(v) THEN Null
    ELSE IF v \in 1..OFFICE_COUNT THEN v - 1 ELSE OFFICE_COUNT

\* the product sort of sort_data
SortProduct(t) ==
    LET order == IdCol("__office_order__")
        keyed == WithColumn(t, order,
                            [i \in 1..Len(t.rows) |->
                                OfficeOrder(t.rows[i][IdCol("office_name")])])
    IN  {DropCol(s, order) :
            s \in Sorts(keyed, <<order, IdCol("cust_name"), IdCol("layer1")>>,
                        <<FALSE, FALSE, FALSE>>)}

\* sort_data: the set of results the sort may give; empty when it raises
sort_data(t) ==
    LET current_sales_column == MetricCol(CurrentYear, "sales")
        both == /\ current_sales_column \in ColSet(t["corp"])
                /\ current_sales_column \in ColSet(t["cust"])
        By(d) == IF both THEN <<current_sales_column>> ELSE <<>>
        Desc(d) == IF both THEN <<TRUE>> ELSE <<>>
    IN  IF SortRaises(t["prod"],
                      <<IdCol("office_name"), IdCol("cust_name"), IdCol("layer1")>>)
        THEN {}
        ELSE {[d \in Dims |->
                  CASE d = "corp" -> s1 [] d = "cust" -> s2 [] d = "prod" -> s3] :
                 s1 \in SortOrKeep(t["corp"], By("corp"), Desc("corp")),
                 s2 \in SortOrKeep(t["cust"], By("cust"), Desc("cust")),
                 s3 \in SortProduct(t["prod"])}

\* filter_zero_rows: the rows whose year columns are all 0 are left out (a
\* null is not a value that differs from 0)
filter_zero_rows(t) ==
    [d \in Dims |->
        LET existing_cols == YearColumns \cap ColSet(t[d])
        IN  IF existing_cols = {} THEN t[d]
            ELSE [t[d] EXCEPT !.rows =
                    SelectSeq(t[d].rows,
                              LAMBDA r : \E c \in existing_cols :
                                            ~is_null(r[c]) /\ r[c] # 0)]]

-----------------------------------------------------------------------------
(* The two scripts, step by step *)

\* ledger rows and historical rows considered for a whole run
MaxMainTx == 2

MaxMainPast == 1

\* (corp_code, cust_code, office_name) of the ledger rows: one customer
\* served under two companies, each row with revenue 100.0 and margin 0.5
MainTxIds == <<<<1, 2, 1>>, <<2, 2, 1>>>>

MainTxList ==
    [n \in 1..Len(MainTxIds) |-> LedgerRow(MainTxIds[n], CurrentYear, 2, 3, 200, 1)]

MainLedgers ==
    {[i \in 1..Len(s) |-> MainTxList[s[i]]] :
        s \in SortedSeqs(Len(MainTxList), MaxMainTx)}

MainPastLedgers ==
    {[i \in 1..Len(s) |-> PastList[s[i]]] :
        s \in SortedSeqs(Len(PastList), MaxMainPast)}

\* the shapes of the historical files of a whole run: those of HistFile, and
\* files of an older vintage that name the customer columns by their aliases
MainHistShapes ==
    {"asis", "missing_corp", "missing_prod", "nokey_cust",
     "alias", "alias_name", "alias_code", "alias_noprod"}

MainHistFile(shape, d, past, ledger) ==
    LET base == HistBase(d, past)
        code == IdCol("cust_code")
        name == IdCol("cust_name")
    IN  CASE shape = "alias" ->
                CASE d = "cust" -> Rename(base, (code :> ALIAS_CODE) @@ (name :> ALIAS_NAME))
                  [] d = "prod" -> Rename(base, name :> ALIAS_CUST)
                  [] OTHER -> base
          [] shape = "alias_name" ->
                IF d = "cust" THEN Rename(base, name :> ALIAS_NAME) ELSE base
          [] shape = "alias_code" ->
                IF d = "cust" THEN Rename(base, code :> ALIAS_CODE) ELSE base
          [] shape = "alias_noprod" ->
                CASE d = "cust" -> Rename(base, (code :> ALIAS_CODE) @@ (name :> ALIAS_NAME))
                  [] d = "prod" -> EmptyFrame
                  [] OTHER -> base
          [] OTHER -> HistFile(shape, d, past, ledger)

MainHistFiles(ledger) ==
    {[d \in Dims |-> MainHistFile(shape, d, past, ledger)] :
        shape \in MainHistShapes, past \in MainPastLedgers}

\* the rows of the company master: company 1 under its name, and once more
\* under a second name
MasterRows ==
    <<(IdCol("corp_code") :> 1) @@ (IdCol("corp_name") :> NameOf(1)),
      (IdCol("corp_code") :> 1) @@ (IdCol("corp_name") :> NameOf(1) + 1)>>

Masters ==
    {[cols |-> <<IdCol("corp_code"), IdCol("corp_name")>>,
      rows |-> SubSeq(MasterRows, 1, n)] : n \in 1..Len(MasterRows)}

\* the files are loaded: load_current_data and load_past_data
InitMain ==
    /\ raw \in MainLedgers
    /\ df_a = create_data(raw, CurrentYear)
    /\ df_b \in MainHistFiles(raw)
    /\ master \in Masters
    /\ df_pre = NoFrames
    /\ df = NoFrames
    /\ pc = "loaded"
    /\ variant = "none"
    /\ totals = [before |-> NoTotals, after |-> NoTotals]
    /\ checks = <<>>
    /\ saved = <<>>
    /\ signal = "running"
    /\ ExtIdle

\* the exception of a step goes through main() and run() to the caller
Raise ==
    /\ pc' = "failed"
    /\ signal' = "raised"
    /\ UNCHANGED <<raw, df_a, df_b, df_pre, df, master, totals, checks, saved>>

\* a step that turns the tables into t
Step(to, t) ==
    /\ pc' = to
    /\ df' = t
    /\ df_pre' = df
    /\ UNCHANGED <<raw, df_a, df_b, master, totals, checks, saved, signal>>

\* main(): past_totals = validator.validate_data_totals(df1_b, df2_b, df3_b)
ValidateDataTotals ==
    /\ pc = "loaded"
    /\ pc' = "p_validated"
    /\ variant' = "protective"
    /\ totals' = [totals EXCEPT !.before = validate_data_totals(df_b)]
    /\ UNCHANGED <<raw, df_a, df_b, df_pre, df, master, checks, saved, signal>>
    /\ UNCHANGED ext

\* main(): df2_b, df3_b = processor.rename_columns(df2_b, df3_b)
RenameColumns ==
    /\ pc = "p_validated"
    /\ UNCHANGED variant
    /\ LET r == rename_columns(df_b["cust"], df_b["prod"])
       IN  IF r.raised THEN Raise
           ELSE /\ pc' = "p_renamed"
                /\ df_b' = [df_b EXCEPT !["cust"] = r.cust, !["prod"] = r.prod]
                /\ df_pre' = df_b
                /\ UNCHANGED <<raw, df_a, df, master, totals, checks, saved, signal>>
    /\ UNCHANGED ext

\* main(): processor.merge_dataframes(...)
\* a merge of the historical tables as they were loaded, before the rename
MergeLoadedDataframes ==
    /\ pc = "p_renamed"
    /\ UNCHANGED variant
    /\ LET m == merge_dataframes(df_a, df_pre, Years, CurrentYear)
       IN  IF m.raised THEN Raise ELSE Step("p_merged", m.df)
    /\ UNCHANGED ext

MainMergeDataframes ==
    /\ pc = "p_renamed"
    /\ UNCHANGED variant
    /\ LET m == merge_dataframes(df_a, df_b, Years, CurrentYear)
       IN  IF m.raised THEN Raise ELSE Step("p_merged", m.df)
    /\ UNCHANGED ext

\* main(): df1 = processor.merge_with_master(df1, master_path)
MergeWithMaster ==
    /\ pc = "p_merged"
    /\ UNCHANGED variant
    /\ LET m == merge_with_master(df["corp"], master)
       IN  IF m.raised THEN Raise
           ELSE Step("p_mastered", [df EXCEPT !["corp"] = m.df])
    /\ UNCHANGED ext

\* main(): df3 = processor.aggregate_product_data(df3)
AggregateProductData ==
    /\ pc = "p_mastered"
    /\ UNCHANGED variant
    /\ Step("p_aggregated", [df EXCEPT !["prod"] = aggregate_product_data(df["prod"])])
    /\ UNCHANGED ext

\* main(): processor.reorder_columns(df1, df2, df3, year, years)
ReorderColumns ==
    /\ pc = "p_aggregated"
    /\ UNCHANGED variant
    /\ Step("p_reordered", reorder_columns(df, CurrentYear, Years))
    /\ UNCHANGED ext

\* main(): processor.fill_missing_index_columns(df1, df2, df3, pl.DataFrame(),
\* pl.DataFrame(), pl.DataFrame())
FillWithEmptyFrames ==
    /\ pc = "p_reordered"
    /\ UNCHANGED variant
    /\ Step("p_filled", fill_missing_index_columns(df, NoFrames, <<>>))
    /\ UNCHANGED ext

\* main(): processor.sort_dataframes(df1, df2, df3, years, current_year)
SortDataframes ==
    /\ pc = "p_filled"
    /\ UNCHANGED variant
    /\ LET results == sort_dataframes(df, Years, CurrentYear)
       IN  IF results = {} THEN Raise
           ELSE \E t \in results : Step("p_sorted", t)
    /\ UNCHANGED ext

\* main(): processor.convert_data_types(df1, df2, df3)
ConvertDataTypes ==
    /\ pc = "p_sorted"
    /\ UNCHANGED variant
    /\ Step("p_converted", convert_data_types(df))
    /\ UNCHANGED ext

\* main(): after_totals = validator.validate_data_totals(df1, df2, df3);
\* integrity_check_passed = validator.compare_totals(past_totals, after_totals)
CompareTotals ==
    /\ pc = "p_converted"
    /\ pc' = "checked"
    /\ LET after_totals == validate_data_totals(df)
       IN  /\ totals' = [totals EXCEPT !.after = after_totals]
           /\ checks' = Append(checks, compare_totals(totals.before, after_totals))
    /\ UNCHANGED <<raw, df_a, df_b, df_pre, df, variant, master, saved, signal>>
    /\ UNCHANGED ext

\* a save that is skipped when a check has failed
SaveDataWhenPassed ==
    /\ pc = "checked"
    /\ variant = "protective"
    /\ pc' = "saved"
    /\ saved' = IF \A i \in 1..Len(checks) : checks[i] THEN <<df>> ELSE saved
    /\ UNCHANGED <<raw, df_a, df_b, df_pre, df, variant, master, totals, checks, signal>>
    /\ UNCHANGED ext

\* main(): processor.save_data(df1, df2, df3, ProcessConfig.OUTPUT_DIR),
\* whatever integrity_check_passed is
SaveData ==
    /\ pc = "checked"
    /\ variant = "protective"
    /\ pc' = "saved"
    /\ saved' = <<df>>
    /\ UNCHANGED <<raw, df_a, df_b, df_pre, df, variant, master, totals, checks, signal>>
    /\ UNCHANGED ext

\* main() returns None after its last messages
ReturnMain ==
    /\ pc = "saved"
    /\ variant = "protective"
    /\ pc' = "done"
    /\ signal' = "None"
    /\ UNCHANGED <<raw, df_a, df_b, df_pre, df, variant, master, totals, checks, saved>>
    /\ UNCHANGED ext

\* run(): past_data = self.load_past_year_data()
LoadPastYearData ==
    /\ pc = "loaded"
    /\ variant' = "authoritative"
    /\ IF load_past_year_data_raises(df_b) THEN Raise
       ELSE /\ pc' = "q_loaded"
            /\ UNCHANGED <<raw, df_a, df_b, df_pre, df, master, totals, checks,
                           saved, signal>>
    /\ UNCHANGED ext

\* run(): df2_past, df3_past = self.preprocess_past_data(df2_past, df3_past)
PreprocessPastData ==
    /\ pc = "q_loaded"
    /\ UNCHANGED variant
    /\ LET r == preprocess_past_data(df_b["cust"], df_b["prod"])
       IN  IF r.raised THEN Raise
           ELSE /\ pc' = "q_preprocessed"
                /\ df_b' = [df_b EXCEPT !["cust"] = r.cust, !["prod"] = r.prod]
                /\ df_pre' = df_b
                /\ UNCHANGED <<raw, df_a, df, master, totals, checks, saved, signal>>
    /\ UNCHANGED ext

\* run(): merged_data = self.merge_data(current_data, past_data)
RunMergeData ==
    /\ pc = "q_preprocessed"
    /\ UNCHANGED variant
    /\ LET m == merge_data(df_a, df_b, Years, CurrentYear)
       IN  IF m.raised THEN Raise ELSE Step("q_merged", m.df)
    /\ UNCHANGED ext

\* run(): the values before and after the merge are compared, and the
\* differences are printed as a warning
CompareYearlyValues ==
    /\ pc = "q_merged"
    /\ pc' = "q_compared"
    /\ LET before_merge_values == get_yearly_values_before_merge(df_a, df_b)
           after_merge_values == get_yearly_values_after_merge(df)
           differences == compare_yearly_values(before_merge_values, after_merge_values)
       IN  /\ totals' = [before |-> before_merge_values, after |-> after_merge_values]
           /\ checks' = Append(checks, differences = {})
    /\ UNCHANGED <<raw, df_a, df_b, df_pre, df, variant, master, saved, signal>>
    /\ UNCHANGED ext

\* run(): df1_merged = self.add_master_data(merged_data[0])
AddMasterData ==
    /\ pc = "q_compared"
    /\ UNCHANGED variant
    /\ LET m == add_master_data(df["corp"], master)
       IN  IF m.raised THEN Raise
           ELSE Step("q_mastered", [df EXCEPT !["corp"] = m.df])
    /\ UNCHANGED ext

\* run(): df3_processed = self.process_product_data(merged_data[2])
ProcessProductData ==
    /\ pc = "q_mastered"
    /\ UNCHANGED variant
    /\ LET m == process_product_data(df["prod"])
       IN  IF m.raised THEN Raise
           ELSE Step("q_processed", [df EXCEPT !["prod"] = m.df])
    /\ UNCHANGED ext

\* run(): reordered_data = self.reorder_columns(merged_data)
ReorderColumns2Q ==
    /\ pc = "q_processed"
    /\ UNCHANGED variant
    /\ Step("q_reordered", reorder_columns_2Q(df))
    /\ UNCHANGED ext

\* run(): typed_data = self.fix_data_types(reordered_data)
FixDataTypes ==
    /\ pc = "q_reordered"
    /\ UNCHANGED variant
    /\ Step("q_typed", fix_data_types(df))
    /\ UNCHANGED ext

\* run(): final_data = self.sort_data(typed_data)
SortData ==
    /\ pc = "q_typed"
    /\ UNCHANGED variant
    /\ LET results == sort_data(df)
       IN  IF results = {} THEN Raise
           ELSE \E t \in results : Step("q_sorted", t)
    /\ UNCHANGED ext

\* run(): final_data = self.filter_zero_rows(final_data)
FilterZeroRows ==
    /\ pc = "q_sorted"
    /\ UNCHANGED variant
    /\ Step("q_filtered", filter_zero_rows(df))
    /\ UNCHANGED ext

\* run(): the final values are compared with those after the merge, and the
\* differences are printed as a warning
FinalCompare ==
    /\ pc = "q_filtered"
    /\ pc' = "checked"
    /\ LET final_yearly_values == get_yearly_values_after_merge(df)
           final_differences == compare_yearly_values(totals.after, final_yearly_values)
       IN  checks' = Append(checks, final_differences = {})
    /\ UNCHANGED <<raw, df_a, df_b, df_pre, df, variant, master, totals, saved, signal>>
    /\ UNCHANGED ext

\* run(): self.save_data(final_data)
SaveData2Q ==
    /\ pc = "checked"
    /\ variant = "authoritative"
    /\ pc' = "saved"
    /\ saved' = <<df>>
    /\ UNCHANGED <<raw, df_a, df_b, df_pre, df, variant, master, totals, checks, signal>>
    /\ UNCHANGED ext

\* run() returns None, and main() of the 2Q script after it
ReturnRun ==
    /\ pc = "saved"
    /\ variant = "authoritative"
    /\ pc' = "done"
    /\ signal' = "None"
    /\ UNCHANGED <<raw, df_a, df_b, df_pre, df, variant, master, totals, checks, saved>>
    /\ UNCHANGED ext

NextMain ==
    \/ ValidateDataTotals \/ RenameColumns \/ MainMergeDataframes
    \/ MergeWithMaster \/ AggregateProductData \/ ReorderColumns
    \/ FillWithEmptyFrames \/ SortDataframes \/ ConvertDataTypes
    \/ CompareTotals \/ SaveData \/ ReturnMain
    \/ LoadPastYearData \/ PreprocessPastData \/ RunMergeData
    \/ CompareYearlyValues \/ AddMasterData \/ ProcessProductData
    \/ ReorderColumns2Q \/ FixDataTypes \/ SortData \/ FilterZeroRows
    \/ FinalCompare \/ SaveData2Q \/ ReturnRun

SpecMain == InitMain /\ [][NextMain]_vars

\* the positions of a script
MainPositions ==
    {"loaded", "p_validated", "p_renamed", "p_merged", "p_mastered",
     "p_aggregated", "p_reordered", "p_filled", "p_sorted", "p_converted",
     "q_loaded", "q_preprocessed", "q_merged", "q_compared", "q_mastered",
     "q_processed", "q_reordered", "q_typed", "q_sorted", "q_filtered",
     "checked", "saved", "done", "failed"}

\* the script has neither returned nor raised
Running == pc \notin {"done", "failed"}

\* the script leaves its position
Advance == Running /\ \E p \in MainPositions \ {pc} : pc' = p

\* each script is one sequential thread of calls that return or raise: a
\* script that is running leaves the position it is at
SpecMainLive == SpecMain /\ WF_pc(Advance)

-----------------------------------------------------------------------------
(* The Fiscal Year Set: config.py and DataProcessor of the 2Q script *)

\* config.py: START_YEAR as configured (START_YEAR above keeps the merge
\* to the last NumPastYears years)
CONFIG_START_YEAR == 2015

\* 02_merge_past_data_2Q.py: self.START_YEAR_DATA
START_YEAR_DATA == 2015

\* config.py: the default of base_year
BASE_YEAR == 2025

\* get_fiscal_years: the third value it returns, current_year; only the
\* month of the clock is read
get_fiscal_years(base_year, now) ==
    IF now.month >= 4 THEN base_year ELSE base_year - 1

\* _calculate_fiscal_years: processing_year
calculate_fiscal_years(now) ==
    IF now.month >= 4 THEN now.year ELSE now.year - 1

\* the clocks a run is started under
MaxClockYears == 4

Clocks ==
    [year : (BASE_YEAR - 1)..(BASE_YEAR - 2 + MaxClockYears), month : 1..12]

\* nothing of the merge pipeline has run
CoreIdle ==
    /\ raw = <<>>
    /\ df_a = NoFrames
    /\ df_b = NoFrames
    /\ df_pre = NoFrames
    /\ df = NoFrames
    /\ variant = "none"
    /\ TailIdle

InitYears ==
    /\ clock \in Clocks
    /\ pc = "clock"
    /\ CoreIdle
    /\ fiscal = <<>>
    /\ app = "none"
    /\ wb = "none"
    /\ book = [d \in Dims |-> NoCells]
    /\ moved = {}

\* main() of 02_merge_past_data.py: get_fiscal_years() and
\* generate_years_list(START_YEAR, current_year); a label str(y) is held as y
FiscalYearsOfMain ==
    /\ pc = "clock"
    /\ pc' = "years"
    /\ variant' = "protective"
    /\ fiscal' = generate_years_list(CONFIG_START_YEAR,
                                     get_fiscal_years(BASE_YEAR, clock))
    /\ UNCHANGED <<raw, df_a, df_b, df_pre, df, clock, app, wb, book, moved>>
    /\ UNCHANGED tail

\* DataProcessor.__init__ of the 2Q script: _calculate_fiscal_years() and
\* _generate_years_list()
FiscalYearsOf2Q ==
    /\ pc = "clock"
    /\ pc' = "years"
    /\ variant' = "authoritative"
    /\ fiscal' = generate_years_list(START_YEAR_DATA, calculate_fiscal_years(clock))
    /\ UNCHANGED <<raw, df_a, df_b, df_pre, df, clock, app, wb, book, moved>>
    /\ UNCHANGED tail

NextYears == FiscalYearsOfMain \/ FiscalYearsOf2Q

SpecYears == InitYears /\ [][NextYears]_vars

-----------------------------------------------------------------------------
(* Spreadsheet transfer: 03_transfer_data.py, 03_transfer_data_1st.py and  *)
(* 03_transfer_data_2Q.py                                                  *)

\* a cell that holds a column name, and a cell that holds a value; a sheet
\* is a function from the positions <<row, column>> that have content to
\* their cells
HeaderCell(c) == [kind |-> "header", col |-> c, value |-> 0]

DataCell(v) == [kind |-> "data", col |-> IdCol("none"), value |-> v]

\* the cells of a table laid out from cell A1: the header in row 1 when it
\* is asked for, the rows below it
Block(t, header) ==
    LET first == IF header THEN 1 ELSE 0
    IN  [p \in (1..(Len(t.rows) + first)) \X (1..Len(t.cols)) |->
            IF header /\ p[1] = 1 THEN HeaderCell(t.cols[p[2]])
            ELSE DataCell(t.rows[p[1] - first][t.cols[p[2]]])]

\* range(top).value = block: the cells of the block are written, moved down
\* to start at row top; every other cell of the sheet is left as it is
RangeWrite(sheet, top, block) ==
    LET area == {<<p[1] + top - 1, p[2]>> : p \in DOMAIN block}
    IN  [q \in DOMAIN sheet \cup area |->
            IF q \in area THEN block[<<q[1] - top + 1, q[2]>>] ELSE sheet[q]]

\* dataframe.fill_null(0)
FillNullAll(t) ==
    [t EXCEPT !.rows = [i \in 1..Len(t.rows) |->
                           [c \in ColSet(t) |->
                               IF is_null(t.rows[i][c]) THEN 0 ELSE t.rows[i][c]]]]

\* transfer_data_to_sheet of 03_transfer_data.py: the table, nulls filled
\* with 0, is assigned to range('A1') with its header; the sheet is not
\* cleared
transfer_data_to_sheet(sheet, dataframe) ==
    RangeWrite(sheet, 1, Block(FillNullAll(dataframe), TRUE))

\* write_to_excel of 03_transfer_data_1st.py: clear_contents, then the
\* header at A1 and the rows at A2 when the table has rows
write_to_excel(sheet, t) ==
    IF Len(t.rows) > 0
    THEN RangeWrite(RangeWrite(NoCells, 1, Block([t EXCEPT !.rows = <<>>], TRUE)),
                    2, Block(t, FALSE))
    ELSE NoCells

\* worksheet.max_row of openpyxl: the last row with a cell, 1 for no cell
max_row(sheet) ==
    IF DOMAIN sheet = {} THEN 1
    ELSE CHOOSE r \in {p[1] : p \in DOMAIN sheet} :
             \A p \in DOMAIN sheet : p[1] <= r

\* worksheet.delete_rows(idx, amount): the rows from idx are removed and the
\* rows below them move up
delete_rows(sheet, idx, amount) ==
    LET kept == {p \in DOMAIN sheet : p[1] < idx \/ p[1] >= idx + amount}
        Moved(p) == IF p[1] < idx THEN p ELSE <<p[1] - amount, p[2]>>
        Origin(q) == CHOOSE p \in kept : Moved(p) = q
    IN  [q \in {Moved(p) : p \in kept} |-> sheet[Origin(q)]]

\* clear_worksheet_data of 03_transfer_data_2Q.py
clear_worksheet_data(worksheet) ==
    IF max_row(worksheet) > 0
    THEN delete_rows(worksheet, 1, max_row(worksheet))
    ELSE worksheet

\* write_dataframe_to_worksheet of 03_transfer_data_2Q.py: the header and
\* the rows are appended below the last row of the sheet
write_dataframe_to_worksheet(t, worksheet) ==
    LET top == IF DOMAIN worksheet = {} THEN 1 ELSE max_row(worksheet) + 1
    IN  RangeWrite(worksheet, top, Block(t, TRUE))

\* bounds of the transfer: the rows of a table and of the old content
MaxXferRows == 2

MaxOldRows == 4

XferCols == <<IdCol("corp_code"), MetricCol(CurrentYear, "sales")>>

\* a final table of ncols columns and nrows rows, as 02 has saved it
XferTable(ncols, nrows) ==
    LET cols == SubSeq(XferCols, 1, ncols)
    IN  [cols |-> cols,
         rows |-> [i \in 1..nrows |->
                     [c \in Range(cols) |-> IF c.year = 0 THEN i ELSE 100 * i]]]

XferTables == {XferTable(ncols, nrows) : ncols \in 1..Len(XferCols),
                                         nrows \in 0..MaxXferRows}

\* a sheet of the template that holds earlier content
OldSheet(nrows, ncols) == [p \in (1..nrows) \X (1..ncols) |-> DataCell(9)]

OldSheets == {NoCells, OldSheet(2, 1), OldSheet(MaxOldRows, 3)}

\* the part of the state a transfer leaves alone
xidle == <<raw, df_a, df_b, df_pre, df, master, totals, clock, fiscal>>

\* the parquet files of the three dimensions and the template are in place
InitTransfer ==
    /\ \E t \in XferTables : df = [d \in Dims |-> t]
    /\ \E s \in OldSheets : book = [d \in Dims |-> s]
    /\ pc = "x_start"
    /\ variant = "none"
    /\ raw = <<>>
    /\ df_a = NoFrames
    /\ df_b = NoFrames
    /\ df_pre = NoFrames
    /\ TailIdle
    /\ clock = [year |-> 0, month |-> 0]
    /\ fiscal = <<>>
    /\ app = "none"
    /\ wb = "none"
    /\ moved = {}

\* the sheet the loop over SHEET_NAMES is at; checks holds one entry for
\* each sheet the loop has been through
NextSheet == DATA_TYPES[Len(checks) + 1]

\* 03_transfer_data.py, execute_transfer_process: validate_prerequisites
\* and ExcelTransferManager.__enter__; a missing file or a failed start of
\* Excel ends the process with exit(1)
StdEnter ==
    /\ pc = "x_start"
    /\ variant' = "std"
    /\ \E ok \in BOOLEAN :
          IF ok THEN app' = "running" /\ pc' = "xs_entered" /\ signal' = signal
          ELSE app' = app /\ pc' = "x_ended" /\ signal' = "1"
    /\ UNCHANGED <<wb, book, moved, checks, saved>>
    /\ UNCHANGED xidle

\* excel_manager.open_workbook(SOURCE_FILE)
StdOpen ==
    /\ pc = "xs_entered"
    /\ \E ok \in BOOLEAN :
          IF ok THEN wb' = "open" /\ pc' = "xs_opened" /\ signal' = signal
          ELSE wb' = wb /\ pc' = "xs_exit" /\ signal' = "raised"
    /\ UNCHANGED <<variant, app, book, moved, checks, saved>>
    /\ UNCHANGED xidle

\* load_parquet_data and transfer_data_to_sheet for the next sheet
StdTransfer ==
    /\ pc = "xs_opened"
    /\ Len(checks) < Len(DATA_TYPES)
    /\ \E ok \in BOOLEAN :
          IF ok
          THEN /\ book' = [book EXCEPT ![NextSheet] =
                              transfer_data_to_sheet(book[NextSheet], df[NextSheet])]
               /\ moved' = moved \cup {NextSheet}
               /\ checks' = Append(checks, TRUE)
               /\ UNCHANGED <<pc, signal>>
          ELSE /\ pc' = "xs_exit"
               /\ signal' = "raised"
               /\ UNCHANGED <<book, moved, checks>>
    /\ UNCHANGED <<variant, app, wb, saved>>
    /\ UNCHANGED xidle

\* excel_manager.save_workbook(save_path)
StdSave ==
    /\ pc = "xs_opened"
    /\ Len(checks) = Len(DATA_TYPES)
    /\ pc' = "xs_exit"
    /\ \E ok \in BOOLEAN :
          IF ok THEN saved' = <<book>> /\ signal' = signal
          ELSE saved' = saved /\ signal' = "raised"
    /\ UNCHANGED <<variant, app, wb, book, moved, checks>>
    /\ UNCHANGED xidle

\* ExcelTransferManager.__exit__ (_cleanup_resources), then the return of
\* execute_transfer_process and the exit of main: workbook.close() and
\* app.quit() are in one try, so that a close that raises skips the quit;
\* the workbook is then open or closed
StdExit ==
    /\ pc = "xs_exit"
    /\ pc' = "x_ended"
    /\ \E closes \in BOOLEAN, left \in {"open", "closed"} :
          IF wb = "open" /\ ~closes
          THEN wb' = left /\ app' = app
          ELSE /\ wb' = IF wb = "open" THEN "closed" ELSE wb
               /\ app' = "quit"
    /\ signal' = IF signal = "raised" THEN "1" ELSE "0"
    /\ UNCHANGED <<variant, book, moved, checks, saved>>
    /\ UNCHANGED xidle

\* 03_transfer_data_1st.py, main: xw.App(visible=False)
FirstStart ==
    /\ pc = "x_start"
    /\ variant' = "first"
    /\ \E ok \in BOOLEAN :
          IF ok THEN app' = "running" /\ pc' = "xf_started" /\ signal' = signal
          ELSE app' = app /\ pc' = "x_ended" /\ signal' = "raised"
    /\ UNCHANGED <<wb, book, moved, checks, saved>>
    /\ UNCHANGED xidle

\* main: the template exists and app.books.open(excel_path)
FirstOpen ==
    /\ pc = "xf_started"
    /\ \E ok \in BOOLEAN :
          IF ok THEN wb' = "open" /\ pc' = "xf_opened" /\ signal' = signal
          ELSE wb' = wb /\ pc' = "xf_finally" /\ signal' = "raised"
    /\ UNCHANGED <<variant, app, book, moved, checks, saved>>
    /\ UNCHANGED xidle

\* process_sheet for the next sheet: read_parquet_file and write_to_excel
FirstTransfer ==
    /\ pc = "xf_opened"
    /\ Len(checks) < Len(DATA_TYPES)
    /\ \E ok \in BOOLEAN :
          IF ok
          THEN /\ book' = [book EXCEPT ![NextSheet] =
                              write_to_excel(book[NextSheet], df[NextSheet])]
               /\ moved' = moved \cup {NextSheet}
               /\ checks' = Append(checks, TRUE)
               /\ UNCHANGED <<pc, signal>>
          ELSE /\ pc' = "xf_finally"
               /\ signal' = "raised"
               /\ UNCHANGED <<book, moved, checks>>
    /\ UNCHANGED <<variant, app, wb, saved>>
    /\ UNCHANGED xidle

\* main: wb.save(str(save_path))
FirstSave ==
    /\ pc = "xf_opened"
    /\ Len(checks) = Len(DATA_TYPES)
    /\ pc' = "xf_finally"
    /\ \E ok \in BOOLEAN :
          IF ok THEN saved' = <<book>> /\ signal' = signal
          ELSE saved' = saved /\ signal' = "raised"
    /\ UNCHANGED <<variant, app, wb, book, moved, checks>>
    /\ UNCHANGED xidle

\* main, finally: wb.close() then app.quit(); a close that raises leaves the
\* finally block before the quit
FirstFinally ==
    /\ pc = "xf_finally"
    /\ pc' = "x_ended"
    /\ \E closes \in BOOLEAN, left \in {"open", "closed"} :
          IF wb = "open" /\ ~closes
          THEN wb' = left /\ app' = app /\ signal' = "raised"
          ELSE /\ wb' = IF wb = "open" THEN "closed" ELSE wb
               /\ app' = "quit"
               /\ signal' = IF signal = "raised" THEN "raised" ELSE "None"
    /\ UNCHANGED <<variant, book, moved, checks, saved>>
    /\ UNCHANGED xidle

\* 03_transfer_data_2Q.py, main and transfer_data: validate_files_exist and
\* px.load_workbook(template_path); no Excel application is started
Q2Load ==
    /\ pc = "x_start"
    /\ variant' = "q2"
    /\ \E ok \in BOOLEAN :
          IF ok THEN wb' = "open" /\ pc' = "xq_loaded"
          ELSE wb' = wb /\ pc' = "x_ended"
    /\ signal' = IF pc' = "x_ended" THEN "None" ELSE signal
    /\ UNCHANGED <<app, book, moved, checks, saved>>
    /\ UNCHANGED xidle

\* process_single_sheet for the next sheet: a sheet whose file is missing
\* or whose read fails is skipped
Q2Transfer ==
    /\ pc = "xq_loaded"
    /\ Len(checks) < Len(DATA_TYPES)
    /\ \E ok \in BOOLEAN :
          IF ok
          THEN /\ book' = [book EXCEPT ![NextSheet] =
                              write_dataframe_to_worksheet(
                                  df[NextSheet],
                                  clear_worksheet_data(book[NextSheet]))]
               /\ moved' = moved \cup {NextSheet}
               /\ checks' = Append(checks, TRUE)
          ELSE /\ checks' = Append(checks, FALSE)
               /\ UNCHANGED <<book, moved>>
    /\ UNCHANGED <<pc, variant, app, wb, saved, signal>>
    /\ UNCHANGED xidle

\* transfer_data: workbook.save when a sheet was processed
Q2Save ==
    /\ pc = "xq_loaded"
    /\ Len(checks) = Len(DATA_TYPES)
    /\ pc' = "xq_finally"
    /\ IF \E i \in 1..Len(checks) : checks[i]
       THEN \E ok \in BOOLEAN : saved' = IF ok THEN <<book>> ELSE saved
       ELSE saved' = saved
    /\ UNCHANGED <<variant, app, wb, book, moved, checks, signal>>
    /\ UNCHANGED xidle

\* transfer_data, finally: workbook.close(); main returns
Q2Finally ==
    /\ pc = "xq_finally"
    /\ pc' = "x_ended"
    /\ wb' = "closed"
    /\ signal' = "None"
    /\ UNCHANGED <<variant, app, book, moved, checks, saved>>
    /\ UNCHANGED xidle

NextTransfer ==
    \/ StdEnter \/ StdOpen \/ StdTransfer \/ StdSave \/ StdExit
    \/ FirstStart \/ FirstOpen \/ FirstTransfer \/ FirstSave \/ FirstFinally
    \/ Q2Load \/ Q2Transfer \/ Q2Save \/ Q2Finally

SpecTransfer == InitTransfer /\ [][NextTransfer]_vars

-----------------------------------------------------------------------------
(* compare_totals on snapshots around its thresholds *)

\* the most columns a snapshot holds
MaxSnapColumns == 2

\* the total of every column before the merge
SnapBase == 5000000

\* the revenue columns of the snapshots, the current year first
SnapCols(n) == {MetricCol(CurrentYear - k, "sales") : k \in 0..(n - 1)}

\* what the merge adds to a total: nothing, one yen, and the amounts at and
\* just above the two thresholds, in both directions
Deltas ==
    LET up == {0, 1, DIFF_WARNING, DIFF_WARNING + 1, DIFF_CRITICAL, DIFF_CRITICAL + 1}
    IN  up \cup {-x : x \in up}

\* the snapshot before the merge: every total is SnapBase
BeforeSnapshots ==
    {[p \in SnapCols(n) \X Dims |-> SnapBase] : n \in 0..MaxSnapColumns}

\* the snapshots after the merge: the totals of the current year have moved
\* by a delta per dimension, those of the other years have not moved
AfterSnapshots ==
    {[p \in SnapCols(n) \X Dims |->
         IF p[1].year = CurrentYear THEN SnapBase + delta[p[2]] ELSE SnapBase] :
        n \in 0..MaxSnapColumns, delta \in [Dims -> Deltas]}

\* main(): the two snapshots are taken
InitCompare ==
    /\ \E b \in BeforeSnapshots, a \in AfterSnapshots :
          totals = [before |-> b, after |-> a]
    /\ pc = "c_snapshots"
    /\ raw = <<>>
    /\ df_a = NoFrames
    /\ df_b = NoFrames
    /\ df_pre = NoFrames
    /\ df = NoFrames
    /\ variant = "none"
    /\ master = EmptyFrame
    /\ checks = <<>>
    /\ saved = <<>>
    /\ signal = "running"
    /\ ExtIdle

\* main(): validator.compare_totals(before_totals, after_totals, year)
CompareSnapshots ==
    /\ pc = "c_snapshots"
    /\ pc' = "c_compared"
    /\ checks' = <<compare_totals(totals.before, totals.after)>>
    /\ UNCHANGED <<raw, df_a, df_b, df_pre, df, variant, master, totals, saved, signal>>
    /\ UNCHANGED ext

NextCompare == CompareSnapshots

SpecCompare == InitCompare /\ [][NextCompare]_vars

-----------------------------------------------------------------------------
(* Properties of the merge *)

Merged == pc = "merged"

CurrentCols == Range(CurrentMetricCols)

\* the prior-year metric columns: m2, sales and profit of each prior year
PriorCols == {c \in Range(ExpectedCols(Years, CurrentYear)) : c.year # CurrentYear}

\* the rows of the current table of d that carry the keys of row r
CurrentRowsOf(d, r) ==
    {j \in 1..Len(df_a[d].rows) :
        \A k \in Range(JoinKeys(d)) : df_a[d].rows[j][k] = r[k]}

\* C1: after a merge of either variant, each current-year metric column of
\* each output row holds the value the current table has for the row's key,
\* and null when the current table has no row for it; never the value the
\* historical file carried.
C1_CurrentYearProtected ==
    Merged =>
        \A d \in Dims : \A i \in 1..Len(df[d].rows) : \A c \in CurrentCols :
            /\ c \in ColSet(df[d])
            /\ LET r == df[d].rows[i]
                   hits == CurrentRowsOf(d, r)
               IN  IF hits = {}
                   THEN r[c] = Null
                   ELSE \A j \in hits : r[c] = df_a[d].rows[j][c]

\* a merged state where the historical file carried its own current-year
\* revenue for a key the current table has, and for a key it has not
C1_Witness ==
    /\ Merged
    /\ variant = "protective"
    /\ MetricCol(CurrentYear, "sales") \in ColSet(df_b["cust"])
    /\ \E i \in 1..Len(df["cust"].rows) :
          /\ CurrentRowsOf("cust", df["cust"].rows[i]) # {}
          /\ df["cust"].rows[i][MetricCol(CurrentYear, "sales")] = 100
    /\ \E i \in 1..Len(df["cust"].rows) :
          /\ CurrentRowsOf("cust", df["cust"].rows[i]) = {}
          /\ df["cust"].rows[i][MetricCol(CurrentYear, "sales")] = Null
    /\ \A j \in 1..Len(df_b["cust"].rows) :
          df_b["cust"].rows[j][MetricCol(CurrentYear, "sales")] = StaleValue("sales")

\* C2: after a protective merge, each prior-year metric column that the
\* historical table and the merged table both have sums to the same total
\* in both.
C2_PriorYearConserved ==
    (Merged /\ variant = "protective") =>
        \A d \in Dims :
            \A c \in PriorCols \cap ColSet(df_b[d]) \cap ColSet(df[d]) :
                ColSum(df[d], c) = ColSum(df_b[d], c)

\* the current-year values of the historical table of d are those of the
\* current table, key by key
SameCurrentValues(d) ==
    /\ ColSet(df_a[d]) \subseteq ColSet(df_b[d])
    /\ SelectCols(df_b[d], df_a[d].cols).rows = df_a[d].rows

\* C3: when the historical table already holds exactly the keys and
\* current-year values of the current table, the protective merge leaves the
\* total of each current-year column what it is in the current table alone.
C3_RemergeIdempotent ==
    (Merged /\ variant = "protective") =>
        \A d \in Dims :
            SameCurrentValues(d) =>
                \A c \in CurrentCols : ColSum(df[d], c) = ColSum(df_a[d], c)

\* a re-merge of two product rows that share their first key
C3_Witness ==
    /\ Merged
    /\ variant = "protective"
    /\ SameCurrentValues("prod")
    /\ Len(df_a["prod"].rows) = 2
    /\ df_a["prod"].rows[1][IdCol("office_name")]
           = df_a["prod"].rows[2][IdCol("office_name")]
    /\ ColSum(df["prod"], MetricCol(CurrentYear, "sales")) > 0

\* every table has a column for every year and applicable suffix
AllExpectedCols ==
    \A d \in Dims : Range(ExpectedCols(Years, CurrentYear)) \subseteq ColSet(df[d])

\* C4 as stated: after a protective merge of any tables, every dimension has
\* a column for every year and applicable suffix.
C4_ColumnCompleteness ==
    (Merged /\ variant = "protective") => AllExpectedCols

\* C4: after a protective merge with a company historical table that has
\* rows, every dimension has a column for every year and applicable suffix.
C4_ColumnCompletenessNonEmpty ==
    (Merged /\ variant = "protective" /\ ~is_empty(df_b["corp"])) => AllExpectedCols

\* the product historical file lacks the oldest year, which the current table
\* lacks too, and the merged product table has the column, all null
C4_Witness ==
    /\ Merged
    /\ variant = "protective"
    /\ ~is_empty(df_b["corp"])
    /\ MetricCol(START_YEAR, "sales") \notin ColSet(df_b["prod"]) \cup ColSet(df_a["prod"])
    /\ MetricCol(START_YEAR, "sales") \in ColSet(df["prod"])
    /\ Len(df["prod"].rows) > 0
    /\ \A i \in 1..Len(df["prod"].rows) :
          df["prod"].rows[i][MetricCol(START_YEAR, "sales")] = Null

\* the historical tables are the three aggregates of one set of rows
HistoricalBuiltAlike ==
    \E past \in PastLedgers : df_b = [d \in Dims |-> HistBase(d, past)]

\* C5: with the current tables aggregated from one ledger and the historical
\* tables aggregated from one set of rows, each year-metric column has the
\* same total in the three merged tables.
C5_CrossDimensionTotals ==
    (Merged /\ HistoricalBuiltAlike) =>
        \A c \in Range(ExpectedCols(Years, CurrentYear)) :
            \A d1, d2 \in Dims :
                (c \in ColSet(df[d1]) /\ c \in ColSet(df[d2])) =>
                    ColSum(df[d1], c) = ColSum(df[d2], c)

\* the scenario of C7: the current company table is the one row of company 1
\* with revenue 100, the historical one the one row of company 1 with revenue
\* 50 last year and 30 the year before
C7_Scenario ==
    /\ Len(df_a["corp"].rows) = 1
    /\ df_a["corp"].rows[1][IdCol("corp_code")] = 1
    /\ df_a["corp"].rows[1][MetricCol(CurrentYear, "sales")] = 100
    /\ Len(df_b["corp"].rows) = 1
    /\ {MetricCol(CurrentYear - 1, "sales"), MetricCol(CurrentYear - 2, "sales")}
           \subseteq ColSet(df_b["corp"])
    /\ df_b["corp"].rows[1][IdCol("corp_code")] = 1
    /\ df_b["corp"].rows[1][MetricCol(CurrentYear - 1, "sales")] = 50
    /\ df_b["corp"].rows[1][MetricCol(CurrentYear - 2, "sales")] = 30

\* C7: in that scenario the merge of either variant returns exactly one row
\* for company 1, with revenue 100, 50 and 30 for the three years, and the
\* total of each of the three columns is the total of the side it came from.
C7_OneRowThreeYears ==
    (Merged /\ C7_Scenario) =>
        LET t == df["corp"]
            cy == MetricCol(CurrentYear, "sales")
            y1 == MetricCol(CurrentYear - 1, "sales")
            y2 == MetricCol(CurrentYear - 2, "sales")
        IN  /\ Len(t.rows) = 1
            /\ {IdCol("corp_code"), cy, y1, y2} \subseteq ColSet(t)
            /\ t.rows[1][IdCol("corp_code")] = 1
            /\ t.rows[1][cy] = 100
            /\ t.rows[1][y1] = 50
            /\ t.rows[1][y2] = 30
            /\ ColSum(t, cy) = ColSum(df_a["corp"], cy)
            /\ ColSum(t, y1) = ColSum(df_b["corp"], y1)
            /\ ColSum(t, y2) = ColSum(df_b["corp"], y2)

C7_Witness ==
    /\ Merged
    /\ C7_Scenario
    /\ variant = "authoritative"
    /\ df["corp"].rows[1][MetricCol(CurrentYear - 1, "sales")] = 50

\* C10: in the protective merge, for each dimension, when the historical
\* table of that dimension is empty the merge raises nothing and returns the
\* current table of that dimension as it is.
C10_EmptyHistoricalPerDimension ==
    (pc \in {"merged", "failed"} /\ variant = "protective") =>
        \A d \in Dims :
            is_empty(df_b[d]) => (pc = "merged" /\ df[d] = df_a[d])

-----------------------------------------------------------------------------
(* Properties of the reconciliation *)

Fixed == pc = "fixed"

\* C8: in the protective reconciliation, for each prior-year metric column
\* the joined table already has, a non-null value is left as it is, and a
\* null value, and only a null value, is replaced by the value of the shadow
\* column.
C8_ProtectiveFillsOnlyNulls ==
    (Fixed /\ variant = "protective") =>
        \A d \in Dims : \A c \in PriorCols \cap ColSet(df_pre[d]) :
            /\ c \in ColSet(df[d])
            /\ Len(df[d].rows) = Len(df_pre[d].rows)
            /\ \A i \in 1..Len(df_pre[d].rows) :
                  LET old == df_pre[d].rows[i]
                      shadow == Tagged(c, "_past")
                  IN  df[d].rows[i][c] =
                          IF ~is_null(old[c]) THEN old[c]
                          ELSE IF shadow \in ColSet(df_pre[d]) THEN old[shadow]
                          ELSE Null

\* a joined table with a row whose value survives a different shadow value and
\* a row whose null is filled
C8_Witness ==
    /\ Fixed
    /\ variant = "protective"
    /\ LET c == MetricCol(CurrentYear - 1, "sales")
           shadow == Tagged(c, "_past")
           t == df_pre["corp"]
       IN  /\ {c, shadow} \subseteq ColSet(t)
           /\ \E i \in 1..Len(t.rows) :
                 t.rows[i][c] = 5 /\ t.rows[i][shadow] = 9 /\ df["corp"].rows[i][c] = 5
           /\ \E i \in 1..Len(t.rows) :
                 t.rows[i][c] = Null /\ t.rows[i][shadow] = 9 /\ df["corp"].rows[i][c] = 9

\* C9: in the authoritative reconciliation, for each prior-year metric column
\* whose shadow column exists, the value of every row afterwards is the value
\* of the shadow, whatever the column held.
C9_AuthoritativeTakesShadow ==
    (Fixed /\ variant = "authoritative") =>
        \A d \in Dims : \A c \in PriorCols :
            Tagged(c, "_past") \in ColSet(df_pre[d]) =>
                /\ c \in ColSet(df[d])
                /\ Len(df[d].rows) = Len(df_pre[d].rows)
                /\ \A i \in 1..Len(df_pre[d].rows) :
                      df[d].rows[i][c] = df_pre[d].rows[i][Tagged(c, "_past")]

\* a joined table with a row whose value gives way to a different shadow value
\* and a row whose value gives way to a null shadow
C9_Witness ==
    /\ Fixed
    /\ variant = "authoritative"
    /\ LET c == MetricCol(CurrentYear - 1, "sales")
           shadow == Tagged(c, "_past")
           t == df_pre["corp"]
       IN  /\ {c, shadow} \subseteq ColSet(t)
           /\ \E i \in 1..Len(t.rows) :
                 t.rows[i][c] = 5 /\ t.rows[i][shadow] = 9 /\ df["corp"].rows[i][c] = 9
           /\ \E i \in 1..Len(t.rows) :
                 t.rows[i][c] = 5 /\ t.rows[i][shadow] = Null
                     /\ df["corp"].rows[i][c] = Null

-----------------------------------------------------------------------------
(* Properties of the backfill *)

\* the historical table has two rows with one name and different codes
TwoCodesOneName(b, name_col, code_col) ==
    \E i, j \in 1..Len(b.rows) :
        /\ ~is_null(b.rows[i][name_col])
        /\ b.rows[i][name_col] = b.rows[j][name_col]
        /\ b.rows[i][code_col] # b.rows[j][code_col]

\* the table has one row per (code, name)
OneRowPerKey(t, name_col, code_col) ==
    \A i, j \in 1..Len(t.rows) :
        (t.rows[i][name_col] = t.rows[j][name_col]
            /\ t.rows[i][code_col] = t.rows[j][code_col]) => i = j

-----------------------------------------------------------------------------
(* Properties of the join keys *)

\* the merge of either script has run, to its end or to an exception
MergeRan == pc \in {"merged", "failed"}

\* the dimensions one of whose configured join keys is missing on a side
MissingKeyDims ==
    {d \in Dims : \E k \in Range(JoinKeys(d)) :
                     k \notin ColSet(df_a[d]) \/ k \notin ColSet(df_b[d])}

\* C11: when the three historical tables have rows and a configured join-key
\* column of some dimension is missing from its current or its historical
\* table, the merge of either script completes without raising.
C11_MissingKeyNeverRaises ==
    (MergeRan /\ MissingKeyDims # {} /\ \A d \in Dims : ~is_empty(df_b[d])) =>
        pc = "merged"

-----------------------------------------------------------------------------
(* Properties of the full outer join *)

\* the join of dimension d was performed by the merge that ran
JoinRan(d) ==
    IF variant = "protective"
    THEN /\ ~is_empty(df_b["corp"])
         /\ d = "prod" => /\ ~is_empty(df_b["prod"])
                          /\ Len(ProductJoinKeys(df_a["prod"], df_b["prod"])) > 0
    ELSE TRUE

\* the keys the join of dimension d was performed on
UsedKeys(d) ==
    IF variant = "protective" /\ d = "prod"
    THEN ProductJoinKeys(df_a["prod"], df_b["prod"])
    ELSE JoinKeys(d)

\* the key of a row of a table, over the key columns keys
KeyOf(r, keys) == [n \in 1..Len(keys) |-> r[keys[n]]]

\* the key a row of a merged table carries: in its key column, or, when the
\* join left the key of the right side in a "_right" column, in that one
MergedKeyOf(t, r, keys) ==
    [n \in 1..Len(keys) |->
        IF is_null(r[keys[n]]) /\ Tagged(keys[n], "_right") \in ColSet(t)
        THEN r[Tagged(keys[n], "_right")]
        ELSE r[keys[n]]]

KeySet(t, keys) == {KeyOf(t.rows[i], keys) : i \in 1..Len(t.rows)}

UniqueKeys(t, keys) == Cardinality(KeySet(t, keys)) = Len(t.rows)

-----------------------------------------------------------------------------
(* Properties of the suffixing step *)

\* the historical table of d as the merge that ran suffixed it before its join
Suffixed(d) ==
    IF variant = "protective"
    THEN add_past_suffix(df_b[d], JoinKeys(d))
    ELSE add_past_suffix_2Q(df_b[d], JoinKeys(d))

\* every column but the join keys of d renamed to its name plus "_past"
SuffixedButJoinKeys(t, d) ==
    [i \in 1..Len(t.cols) |->
        IF t.cols[i] \in Range(JoinKeys(d)) THEN t.cols[i]
        ELSE Tagged(t.cols[i], "_past")]

\* C14: in each merge that reaches its joins, the suffixing step of either
\* script gives every column of the historical table of a dimension that is
\* not a join key of that dimension the suffix "_past", and leaves exactly
\* the join keys of that dimension as they are.
C14_SuffixAllButJoinKeys ==
    (Merged /\ (variant = "protective" => ~is_empty(df_b["corp"]))) =>
        \A d \in Dims : Suffixed(d).cols = SuffixedButJoinKeys(df_b[d], d)

-----------------------------------------------------------------------------
(* Properties of the identity columns *)

\* C15: in each join a merge of either script performs, a key that only the
\* historical table has is, after null reconciliation, held by the join-key
\* columns of some row of the merged table.
C15_HistoricalOnlyKeysFilled ==
    Merged =>
        \A d \in Dims :
            JoinRan(d) =>
                \A k \in KeySet(df_b[d], UsedKeys(d)) \ KeySet(df_a[d], UsedKeys(d)) :
                    \E i \in 1..Len(df[d].rows) :
                        KeyOf(df[d].rows[i], UsedKeys(d)) = k

-----------------------------------------------------------------------------
(* Properties of the saved tables *)

\* save_data has written the tables
Saved == Len(saved) = 1

\* rows i and j of table t carry the same key over the key columns it has
SameKey(t, keys, i, j) ==
    \A k \in Range(keys) \cap ColSet(t) : t.rows[i][k] = t.rows[j][k]

\* C12: in each table that either script saves, no two rows carry the same
\* composite key (the company code; the customer code and name; the six
\* product keys).
C12_SavedKeysUnique ==
    Saved =>
        \A d \in Dims :
            \A i, j \in 1..Len(saved[1][d].rows) :
                SameKey(saved[1][d], JoinKeys(d), i, j) => i = j


\* the merge of a script has just returned its tables
MergeReturned == pc \in {"p_merged", "q_merged"}

NoPastColumn(t) == \A d \in Dims : Len(PastColumns(t[d])) = 0

\* C16: the tables a merge returns and the tables save_data writes have no
\* column whose name ends in "_past".
C16_NoShadowColumns ==
    /\ MergeReturned => NoPastColumn(df)
    /\ Saved => NoPastColumn(saved[1])

\* saved tables whose customer join had a shadow column for last year's
\* revenue, which the saved customer table holds under its own name
C16_Witness ==
    /\ Saved
    /\ ~is_empty(df_b["cust"])
    /\ Tagged(MetricCol(CurrentYear - 1, "sales"), "_past") \in ColSet(Suffixed("cust"))
    /\ MetricCol(CurrentYear - 1, "sales") \in ColSet(saved[1]["cust"])
    /\ ColSum(saved[1]["cust"], MetricCol(CurrentYear - 1, "sales")) > 0

-----------------------------------------------------------------------------
(* Properties of the alias renames *)

\* the rename step of a script has returned
Reconciled == pc \in {"p_renamed", "q_preprocessed"}

ALIASES == {ALIAS_CODE, ALIAS_NAME, ALIAS_CUST}

\* C17: when the rename step of either script has returned, neither the
\* customer nor the product historical table has a column named by a legacy
\* alias, whether or not the other table has rows and whichever aliases the
\* table had.
C17_NoAliasLeft ==
    Reconciled =>
        \A d \in {"cust", "prod"} : ColSet(df_b[d]) \cap ALIASES = {}

-----------------------------------------------------------------------------
(* Properties of the verifier *)

\* the verifier of 02_merge_past_data.py has compared the snapshots of a run
Verified == variant = "protective" /\ pc \in {"checked", "saved", "done"}

\* the metric columns, of any year, that the three final tables all have
SharedMetrics ==
    {c \in ColSet(df["corp"]) : IsNumeric(c) /\ \A d \in Dims : c \in ColSet(df[d])}

\* the company, customer and customer+product totals of column c differ
Diverges(c) == \E d, e \in Dims : ColSum(df[d], c) # ColSum(df[e], c)

\* C18: when the three final tables of 02_merge_past_data.py do not sum to
\* the same total for some metric column (quantity, area, revenue or gross
\* margin of any year), compare_totals returns False.
C18_AnyDivergenceFails ==
    Verified =>
        ((\E c \in SharedMetrics : Diverges(c)) => ~checks[Len(checks)])

-----------------------------------------------------------------------------
(* Properties of the end of a run *)

\* an exception has ended the run
Raised == pc = "failed"

\* C19: every run of either script that raises no exception eventually
\* saves the three tables, whether its integrity checks passed or failed.
C19_SavedUnlessRaised == <>(Raised \/ Saved)

\* tables saved by a run one of whose checks failed
C19_Witness ==
    /\ Saved
    /\ \E i \in 1..Len(checks) : ~checks[i]
    /\ saved[1] = df

\* the run has returned to its caller
Returned == pc = "done"

\* every check of the run passed
ChecksPassed == \A i \in 1..Len(checks) : checks[i]

\* C20: a run that returns gives its caller the signal of a passed run (the
\* return value None, exit status 0) exactly when all its integrity checks
\* passed: a run one of whose checks failed returns a different signal.
C20_FailedCheckSignalled ==
    Returned => (signal = "None" <=> ChecksPassed)

-----------------------------------------------------------------------------
(* Properties of the inputs *)

\* a historical aggregate file of the run is absent: the table the loader
\* holds for it has no column
HistoricalFileAbsent == \E d \in Dims : df_b[d] = EmptyFrame

\* C21: a run of either script one of whose historical aggregate files is
\* absent writes no output and does not return normally: it never goes on
\* with an empty table in place of the file.
C21_AbsentInputAborts ==
    HistoricalFileAbsent => ~Saved /\ ~Returned

-----------------------------------------------------------------------------
(* Properties of the order of the stages *)

\* what the rename step of the running script returns for the tables t
Reconciler(t) ==
    IF variant = "protective"
    THEN rename_columns(t["cust"], t["prod"])
    ELSE preprocess_past_data(t["cust"], t["prod"])

\* what the merge of the running script returns for the historical tables t
Merger(t) ==
    IF variant = "protective"
    THEN merge_dataframes(df_a, t, Years, CurrentYear)
    ELSE merge_data(df_a, t, Years, CurrentYear)

\* the historical tables are what the rename step returns for the loaded ones
HoldsRenamed ==
    LET r == Reconciler(df_pre)
    IN  /\ ~r.raised
        /\ df_b = [df_pre EXCEPT !["cust"] = r.cust, !["prod"] = r.prod]

\* C22: in either script the merge, which suffixes the historical columns
\* with "_past", returns only from a position the rename step has reached,
\* and what is suffixed and joined there are the renamed tables: the step
\* taken after the rename gives the merge of the current tables with them.
C22_RenamedBeforeSuffixed ==
    [][/\ MergeReturned' => Reconciled
       /\ Reconciled =>
             /\ HoldsRenamed
             /\ IF Merger(df_b).raised THEN Raised'
                ELSE MergeReturned' /\ df' = Merger(df_b).df]_vars

\* the rename step has renamed a column of a customer file with rows, and
\* the merge of the tables as loaded would not give what the merge of the
\* renamed ones gives
C22_Witness ==
    /\ Reconciled
    /\ ~is_empty(df_b["cust"])
    /\ df_b["cust"].cols # df_pre["cust"].cols
    /\ ~Merger(df_b).raised
    /\ Merger(df_pre) # Merger(df_b)

\* main() of 02_merge_past_data.py has reordered the columns
Presented ==
    /\ variant = "protective"
    /\ pc \in {"p_reordered", "p_filled", "p_sorted", "p_converted"}

\* fill_missing_index_columns of main() has returned
Deduplicated == variant = "protective" /\ pc = "p_filled"

\* the tables are the ones before the step, filled from the historical
\* tables that were merged
FilledFromMerged ==
    \E first_of \in FirstChoices(NameCodeMapping(df_b["corp"], IdCol("corp_name"),
                                                  IdCol("corp_code")),
                                  IdCol("corp_name"), IdCol("corp_code")) :
        df = fill_missing_index_columns(df_pre, df_b, first_of)

\* C23: in 02_merge_past_data.py the totals after the merge have been
\* verified by the time the columns are reordered, the rows sorted and the
\* key types cast, and the deduplication has filled the merged tables from
\* the historical tables that were merged.
C23_StagesInOrder ==
    /\ Presented => Len(checks) > 0
    /\ Deduplicated => FilledFromMerged

-----------------------------------------------------------------------------
(* Properties of the presentation *)

\* the revenue column of the current year
CurrentSales == MetricCol(CurrentYear, "sales")

\* the rows of t are in non-increasing order of the current year's revenue
RevenueDescending(t) ==
    /\ CurrentSales \in ColSet(t)
    /\ \A i, j \in 1..Len(t.rows) :
          i < j => /\ ~is_null(t.rows[i][CurrentSales])
                   /\ ~is_null(t.rows[j][CurrentSales])
                   /\ t.rows[i][CurrentSales] >= t.rows[j][CurrentSales]

\* the rank of an office name: its place in the custom list where the list
\* is used, the name itself otherwise
OfficeRank(v) == IF variant = "authoritative" THEN OfficeOrder(v) ELSE v

\* rows of t with equal revenue are in ascending order of the office
TiesByOffice(t) ==
    \A i, j \in 1..Len(t.rows) :
        i < j /\ t.rows[i][CurrentSales] = t.rows[j][CurrentSales]
            => OfficeRank(t.rows[i][IdCol("office_name")])
                   <= OfficeRank(t.rows[j][IdCol("office_name")])

\* C24: each table either script saves has its rows in non-increasing order
\* of the current year's revenue, and the rows of the customer+product
\* table with equal revenue are in ascending order of the office name (of
\* its place in the custom list, unlisted names last, where the list is
\* used).
C24_SavedSortedByRevenue ==
    Saved =>
        /\ \A d \in Dims : RevenueDescending(saved[1][d])
        /\ TiesByOffice(saved[1]["prod"])

\* reorder_columns of either script has returned
Reordered == pc \in {"p_reordered", "q_reordered"}

\* the place of a suffix in the fixed order of the suffixes
SuffixIndex(name) == CHOOSE k \in 1..Len(SUFFIXES) : SUFFIXES[k] = name

\* c is a metric column of the canonical layout: a year of the list, a
\* suffix of the fixed order, the quantity for the current year only
CanonicalMetric(c) ==
    /\ c.tag = ""
    /\ c.year \in Range(Years)
    /\ c.name \in Range(SUFFIXES)
    /\ c.name = "qty" => c.year = CurrentYear

\* the place of a column in the canonical layout: the identity columns
\* first, then the years descending and the suffixes in their fixed order
LayoutRank(c) ==
    IF c.year = 0 THEN 0
    ELSE (CurrentYear - c.year) * Len(SUFFIXES) + SuffixIndex(c.name)

CanonicalLayout(cols) ==
    /\ \A i \in 1..Len(cols) :
          \/ cols[i].year = 0 /\ cols[i].tag = ""
          \/ CanonicalMetric(cols[i])
    /\ \A i, j \in 1..Len(cols) :
          i < j => LayoutRank(cols[i]) <= LayoutRank(cols[j])

\* C25: when reorder_columns of either script has returned, the columns of
\* each table are its identity columns first, then the metric columns by
\* descending year and, within a year, in the order quantity, area,
\* revenue, gross margin, with a quantity column for the current year only.
C25_CanonicalColumnOrder ==
    Reordered => \A d \in Dims : CanonicalLayout(df[d].cols)

\* reorder_columns has moved or dropped a column of a company table with
\* rows that holds the revenue of every year of the list
C25_Witness ==
    /\ Reordered
    /\ ~is_empty(df["corp"])
    /\ df_pre["corp"].cols # df["corp"].cols
    /\ \A y \in Range(Years) : MetricCol(y, "sales") \in ColSet(df["corp"])

-----------------------------------------------------------------------------
(* Properties of the Fiscal Year Set *)

\* the fiscal year of the clock: the calendar year from April on, the year
\* before until March
FiscalYearOfClock == IF clock.month >= 4 THEN clock.year ELSE clock.year - 1

\* C26: the Fiscal Year Set a run computes is the descending list of the
\* years from 2015 through the fiscal year of the system clock.
C26_YearsFollowClock ==
    pc = "years" =>
        /\ Len(fiscal) = FiscalYearOfClock - 2015 + 1
        /\ \A i \in 1..Len(fiscal) : fiscal[i] = FiscalYearOfClock - i + 1

-----------------------------------------------------------------------------
(* Properties of the spreadsheet transfer *)

\* a transfer has saved the workbook
Transferred == pc \in {"xs_exit", "xf_finally", "xq_finally", "x_ended"} /\ Len(saved) = 1

\* C27: in the workbook a transfer script has saved, the sheet of each
\* dimension whose table it has written holds the header row and the rows
\* of the table from cell A1 and no other cell, whatever the sheet held
\* before and however many rows the table has.
C27_SheetHoldsOnlyTheTable ==
    Transferred =>
        \A d \in moved : saved[1][d] = Block(df[d], TRUE)

\* the transfer process has ended
TransferEnded == pc = "x_ended"

\* C30: when 03_transfer_data.py or 03_transfer_data_1st.py has ended
\* after starting Excel, no workbook is open and Excel is not running,
\* whether the run succeeded or an error was raised while opening,
\* transferring, saving or closing.
C30_ExcelReleased ==
    TransferEnded /\ variant \in {"std", "first"} =>
        app # "running" /\ wb # "open"

-----------------------------------------------------------------------------
(* Properties of the join with the company master *)

\* the step is the join with the master, and the join has returned
MasterJoined ==
    \/ pc = "p_merged" /\ pc' = "p_mastered"
    \/ pc = "q_compared" /\ pc' = "q_mastered"

\* the later table has the rows of the earlier one, with the same values
\* but for company names that were null
OnlyNamesFilled(before, after) ==
    /\ Len(after.rows) = Len(before.rows)
    /\ ColSet(before) \subseteq ColSet(after)
    /\ \A i \in 1..Len(before.rows) : \A c \in ColSet(before) :
          \/ after.rows[i][c] = before.rows[i][c]
          \/ c = IdCol("corp_name") /\ is_null(before.rows[i][c])

\* the totals of the metric columns are those of the earlier table
SameMetricTotals(before, after) ==
    \A c \in ColSet(before) :
        IsNumeric(c) => c \in ColSet(after) /\ ColSum(after, c) = ColSum(before, c)

\* C29: the join with the company master (merge_with_master, add_master_data)
\* keeps the number of rows of the company table and the total of each of
\* its metric columns, and changes only company names that were null,
\* whatever the master lists.
C29_MasterJoinKeepsCompanyTable ==
    [][MasterJoined =>
          /\ OnlyNamesFilled(df["corp"], df'["corp"])
          /\ SameMetricTotals(df["corp"], df'["corp"])]_vars

-----------------------------------------------------------------------------
(* Properties of compare_totals *)

\* compare_totals has returned
Compared == pc = "c_compared"

\* every column of either snapshot is in the later one with the same total
\* in the three dimensions, and no total of a column of both snapshots has
\* moved by more than 100,000
WithinTolerance(before, after) ==
    LET union == SnapshotColumns(before) \cup SnapshotColumns(after)
    IN  /\ union # {}
        /\ \A c \in union :
              /\ c \in SnapshotColumns(after)
              /\ \A d \in Dims : after[<<c, d>>] = after[<<c, "corp">>]
              /\ c \in SnapshotColumns(before) =>
                    \A d \in Dims :
                        /\ after[<<c, d>>] - before[<<c, d>>] <= 100000
                        /\ before[<<c, d>>] - after[<<c, d>>] <= 100000

====
